---- MODULE Spec2Model ----
(***************************************************************************)
(* The execution-tracking core of the Perfect Python client.               *)
(*                                                                         *)
(*   executor path  perfect_client/executor.py  FlowExecutor runs the      *)
(*                  analyzed tasks of a flow itself, one background thread *)
(*                  per task, swapping sys.stdout for a LogCapture         *)
(*                  (perfect_client/sdk.py).                               *)
(*   tracked path   perfect_client/perfect/sdk.py  the @flow wrapper sets  *)
(*                  a thread-local run context and every @task called by   *)
(*                  the flow body goes through _execute_tracked_task;      *)
(*                  output is routed by ThreadAwareStdout.                 *)
(*                                                                         *)
(* Every run r has a flow thread (the handler / the flow wrapper) and at   *)
(* most one live task thread.  sent[r] is what the transport received      *)
(* with run id r, in order.                                                *)
(***************************************************************************)
EXTENDS Integers, Sequences, FiniteSets, TLC

\* ------------------------------------------------------------------ bounds
MaxTasks == 2
ProgressTasks == 1
ConcTasks == 1
TrackedConcTasks == 2
MaxPolls == 2
ConcPolls == 1
TransportTasks == 1
DropWindow == 6
ListenTasks == 1
MaxCalls == 1
MaxAnalyses == 2
MaxWritten == 5
MaxUntracked == 1
MaxShared == 2
MaxDispatches == 3

\* ------------------------------------------------------- program constants
\* update_interval = 0.01 s, in milliseconds
Quantum == 10
\* min(99, ...) in the progress loop
ProgressCap == 99
\* the progress carried by a COMPLETED update
Done100 == 100
\* tracked path: a RUNNING update every 0.1 s, in milliseconds
UpdatePeriod == 100

Runs == {"a", "b"}
\* A thread of the process that runs no flow (the caller of listen, say).
Untracked == "main"
Writers == Runs \cup {Untracked}
\* The wrapped_execution threads whose completion callbacks are followed
\* step by step.
Dispatches == 1..MaxDispatches
\* The two threads of a run that share its capture.
Threads == {"flow", "task"}
None == "None"
Absent == -1

VARIABLES
  mode,            \* "executor" | "tracked": which client variant runs
  env,             \* how long a sleep may take, and how many the model follows
  pending,         \* runs whose dispatch has not started yet
  flow_name,       \* request.flow_name of each run
  tasks,           \* analyzed_flow.tasks of each run's flow
  pc,              \* position of each run's flow thread
  i,               \* executor: loop index i / current_task_index
  now,             \* milliseconds since task_start, as time.time() shows it
  polls,           \* sleeps of the run's polling loops so far
  elapsed_ms,      \* executor progress loop
  last_progress,   \* executor progress loop
  tpc,             \* position of each run's task thread
  old_stdout,      \* executor: execute_task's saved stream
  task_result,     \* task_result / task_error shared with the task thread
  sys_stdout,      \* the process-wide sys.stdout
  buffer,          \* LogCapture.buffer of every capture
  sent,            \* transport: messages received per run id
  real_out,        \* sys.__stdout__: the text each writer has put on the real stream
  run_id,          \* tracked: _execution_context.run_id of the flow thread
  task_index,      \* tracked: _execution_context.task_index of the flow thread
  my_index,        \* tracked: local task_index of _execute_tracked_task
  last_update_time, \* tracked: polling loop of _execute_tracked_task
  call,            \* tracked: how many task calls the flow body has made
  tl_flow,         \* tracked: _thread_local.log_capture of the flow thread
  tl_task,         \* tracked: _thread_local.log_capture of the task thread
  parent_log_capture, \* tracked: closure variable of execute_task
  stdout_installed,   \* tracked: _stdout_installed
  instances,       \* tracked: ThreadAwareStdout objects created so far
  raised,          \* tracked: the exception leaving the flow body, or None
  analyzable,      \* whether inspect.getsource finds the flow function's source
  drops,           \* transport: per run id, the calls (by ordinal) that fail
  wpc,             \* position of each request's wrapped_execution thread
  callbacks,       \* the flow names on_flow_complete was called with, per request
  completed_count, \* listen: completed_count['value']
  listening,       \* PerfectAPIClient._listening
  heartbeat_running, \* PerfectAPIClient._heartbeat_running
  lpc,             \* position of the thread in listen_for_executions
  hpc,             \* position of the heartbeat thread
  stopped,         \* stop_listening has been called
  requests,        \* the execution requests the backend has not handed out yet
  reg_tasks,       \* WorkflowRegistry._tasks, in insertion order
  reg_flows,       \* WorkflowRegistry._flows: function name -> source and tasks
  analysis,        \* history: per flow, what analyze_flow returned, and how often, since the last registration
  analyze_result,  \* the last call of analyze_flow: its argument and its end
  written,         \* history: the text written to the capture, all of it
  carry,           \* history: the capture's buffer after its last flush
  mark,            \* history: how much had been written and sent after that flush
  prior,           \* history: the capture's buffer before its last flush
  cap_op,          \* history: the last operation on the capture
  lock,            \* LogCapture._lock of the shared capture: the thread holding it, or None
  wr_pc,           \* position of each thread inside LogCapture.write
  text_arg,        \* the argument text of each thread's call of write
  loaded,          \* the value of self.buffer each thread read for its +=
  writes,          \* how many calls of write each thread has made
  order,           \* history: the texts written, in the order the lock was taken
  total_flows,     \* listen: total_flows = len(get_flows())
  count_lock,      \* listen: lock, "held" by a dispatch thread or None
  cb_pc,           \* position of each dispatch thread inside on_flow_complete
  cb_loaded,       \* the value of completed_count['value'] each thread read for its +=
  stops,           \* history: how many times on_flow_complete called stop_listening
  func_calls,      \* history: how many times each wrapper invocation called func
  execution_callback \* PerfectAPIClient._execution_callback: the handler, or None

execVars == <<i, elapsed_ms, last_progress, old_stdout>>
clockVars == <<now, polls>>
trackVars == <<run_id, task_index, my_index, last_update_time, call, tl_flow, tl_task,
               parent_log_capture, stdout_installed, instances, raised>>
registryVars == <<reg_tasks, reg_flows, analysis, analyze_result>>
captureVars == <<written, carry, mark, prior, cap_op>>
writeVars == <<lock, wr_pc, text_arg, loaded, writes, order>>
counterVars == <<total_flows, count_lock, cb_pc, cb_loaded, stops>>
\* What no step of a run, of the listener or of the process changes.
settingVars == <<mode, env, flow_name, tasks, analyzable, drops, registryVars, captureVars,
                 writeVars, counterVars>>
inputVars == <<settingVars, func_calls, execution_callback>>
callbackVars == <<wpc, callbacks>>
listenVars == <<completed_count, listening, heartbeat_running, lpc, hpc, stopped, requests>>
hostVars == <<callbackVars, listenVars>>
vars == <<mode, env, pending, flow_name, tasks, pc, i, now, polls, elapsed_ms,
          last_progress, tpc, old_stdout, task_result, sys_stdout, buffer,
          sent, real_out, run_id, task_index, my_index, last_update_time, call, tl_flow,
          tl_task, parent_log_capture, stdout_installed, instances, raised, analyzable, drops,
          wpc, callbacks, completed_count, listening, heartbeat_running, lpc, hpc,
          stopped, requests, reg_tasks, reg_flows, analysis, analyze_result, written,
          carry, mark, prior, cap_op, lock, wr_pc, text_arg, loaded, writes, order,
          total_flows, count_lock, cb_pc, cb_loaded, stops, func_calls,
          execution_callback>>

\* ------------------------------------------------------------ data model
\* What a task function does when called: the text it prints and how it ends.
ReturnsValue == [kind |-> "value", passed |-> TRUE, note |-> ""]
ResultPass == [kind |-> "result", passed |-> TRUE, note |-> "ok"]
ResultFail == [kind |-> "result", passed |-> FALSE, note |-> "bad"]
Raises == [kind |-> "raise", passed |-> FALSE, note |-> "boom"]
\* A task function that raises requests.exceptions.ConnectionError, which is
\* a requests.exceptions.RequestException.
ConnectionError == "connection refused"
RaisesConnectionError == [kind |-> "raise", passed |-> FALSE, note |-> ConnectionError]
Unset == [kind |-> "unset", passed |-> TRUE, note |-> ""]
Outcomes == {ReturnsValue, ResultPass, ResultFail, Raises}

\* TaskDefinition: estimated_time, crucial_pass and func (its behaviour).
\* func.prints is the shape of the text the function prints before it ends:
\* a complete line, or text with no newline at its end.
TaskDefinition(est, crucial, out, prints) ==
  [estimated_time |-> est, crucial_pass |-> crucial,
   func |-> [ends |-> out, prints |-> prints]]

EstTimes == {20, 3000}
Shapes == {"line", "partial"}
TaskDefs ==
  {TaskDefinition(e, c, o, p) :
     e \in EstTimes, c \in BOOLEAN, o \in Outcomes, p \in Shapes}

RECURSIVE SeqsUpTo(_, _)
SeqsUpTo(S, n) ==
  IF n = 0 THEN {<<>>}
  ELSE LET shorter == SeqsUpTo(S, n - 1)
       IN shorter \cup {Append(s, x) : s \in {t \in shorter : Len(t) = n - 1}, x \in S}

\* The registry's flows (get_flows) by name.
RegisteredFlows == {"Daily Sales ETL"}
UnknownFlow == "No Such Flow"

\* sys.stdout values.
RealStdout == [kind |-> "real", run |-> None, n |-> 0]
ThreadAwareStdout == [kind |-> "mux", run |-> None, n |-> 0]
LogCapture(r, n) == [kind |-> "capture", run |-> r, n |-> n]
NoCapture == [kind |-> "none", run |-> None, n |-> 0]
MostTasks == IF MaxTasks > TrackedConcTasks THEN MaxTasks ELSE TrackedConcTasks
Captures == {LogCapture(r, n) : r \in Runs, n \in 0..MostTasks}

\* Text is a sequence of characters; each carries the run of the thread that
\* wrote it (history only, the program does not see it).
Char(c, r) == [ch |-> c, by |-> r]
FlowLine(c, r) == <<Char(c, r), Char("\n", r)>>
Text(shape, r) ==
  IF shape = "line" THEN <<Char("x", r), Char("\n", r)>> ELSE <<Char("x", r)>>

\* Transport messages: update_task_state and send_log calls.
Upd(idx, state, progress, dur, passed, note) ==
  [kind |-> "state", idx |-> idx, state |-> state, progress |-> progress,
   dur |-> dur, passed |-> passed, note |-> note, what |-> "", text |-> <<>>,
   by |-> {}]
Log(what, idx, note) ==
  [kind |-> "log", idx |-> idx, state |-> "", progress |-> Absent,
   dur |-> Absent, passed |-> "", note |-> note, what |-> what, text |-> <<>>,
   by |-> {}]
Complete(count) ==
  [kind |-> "complete", idx |-> count, state |-> "", progress |-> Absent,
   dur |-> Absent, passed |-> "", note |-> "", what |-> "", text |-> <<>>,
   by |-> {}]
OutputLog(what, text) ==
  [kind |-> "log", idx |-> Absent, state |-> "", progress |-> Absent,
   dur |-> Absent, passed |-> "", note |-> "", what |-> what,
   text |-> [k \in 1..Len(text) |-> text[k].ch],
   by |-> {text[k].by : k \in 1..Len(text)}]

\* ------------------------------------------------------------ LogCapture
IsBlank(text) == \A k \in 1..Len(text) : text[k].ch \in {" ", "\n"}
HasNewline(text) == \E k \in 1..Len(text) : text[k].ch = "\n"
FirstNewline(text) ==
  CHOOSE k \in 1..Len(text) :
    text[k].ch = "\n" /\ \A j \in 1..(k - 1) : text[j].ch # "\n"

\* while '\n' in self.buffer: line, self.buffer = self.buffer.split('\n', 1);
\* if line.strip(): send_log(run_id, line)
RECURSIVE SplitLines(_)
SplitLines(buf) ==
  IF ~HasNewline(buf) THEN [lines |-> <<>>, rest |-> buf]
  ELSE LET k == FirstNewline(buf)
           line == SubSeq(buf, 1, k - 1)
           more == SplitLines(SubSeq(buf, k + 1, Len(buf)))
       IN [lines |-> (IF IsBlank(line) THEN <<>> ELSE <<line>>) \o more.lines,
           rest |-> more.rest]

OutputKind == IF mode = "executor" THEN "task output" ELSE "line"

AsLogs(lines) == [k \in 1..Len(lines) |-> OutputLog(OutputKind, lines[k])]

\* The transport, the capture buffers and the real stream as one value
\* io = [buffer, sent, out], so that the calls one step makes compose in
\* program order.  sent[r] holds
\* every call made with run id r, whether or not it succeeded.
Io == [buffer |-> buffer, sent |-> sent, out |-> real_out]
Commit(io) == buffer' = io.buffer /\ sent' = io.sent /\ real_out' = io.out

\* sys.__stdout__.write(text): the text reaches the real stream, under the
\* writer of each character.
ToReal(io, text) ==
  [io EXCEPT !.out = [w \in DOMAIN @ |-> @[w] \o SelectSeq(text, LAMBDA c : c.by = w)]]

\* The text send_log / update_task_state print when the request failed.
FailureText(r) == <<Char("!", r)>>

RECURSIVE SendOne(_, _, _)

\* while '\n' in self.buffer: line, self.buffer = self.buffer.split('\n', 1);
\* if line.strip(): send_log(run_id, line)
RECURSIVE WriteLoop(_, _)
WriteLoop(io, cap) ==
  IF ~HasNewline(io.buffer[cap]) THEN io
  ELSE LET buf == io.buffer[cap]
           k == FirstNewline(buf)
           line == SubSeq(buf, 1, k - 1)
           io1 == [io EXCEPT !.buffer[cap] = SubSeq(buf, k + 1, Len(buf))]
       IN WriteLoop(IF IsBlank(line) THEN io1
                    ELSE SendOne(io1, cap.run, OutputLog(OutputKind, line)),
                    cap)

\* A capture that sends what it is given, as it comes.
WriteThrough(io, cap, text) ==
  IF IsBlank(text) THEN io ELSE SendOne(io, cap.run, OutputLog(OutputKind, text))

\* LogCapture.write: buffer += text, then every complete line leaves the
\* buffer and, unless blank, is sent with the capture's run id.
LogCaptureWrite(io, cap, text) ==
  WriteLoop([ToReal(io, text) EXCEPT !.buffer[cap] = @ \o text], cap)

\* print(f"... Failed to ...: {e}") in the except branch of a transport
\* call: write(text) and write("\n") on whatever sys.stdout is right now.
FailurePrint(io, r) ==
  IF sys_stdout.kind = "capture"
  THEN LogCaptureWrite(LogCaptureWrite(io, sys_stdout, FailureText(r)),
                       sys_stdout, <<Char("\n", r)>>)
  ELSE ToReal(io, FailureText(r) \o <<Char("\n", r)>>)

\* One send_log / update_task_state call with run id r: the request is
\* posted; a RequestException is caught, reported with print, and the call
\* returns False, which no caller looks at.
SendOne(io, r, msg) ==
  LET posted == [io EXCEPT !.sent[r] = Append(@, msg)]
  IN IF Len(posted.sent[r]) \in drops[r] THEN FailurePrint(posted, r) ELSE posted

\* The calls msgs, one after the other, with run id r
RECURSIVE Send(_, _, _)
Send(io, r, msgs) ==
  IF msgs = <<>> THEN io ELSE Send(SendOne(io, r, Head(msgs)), r, Tail(msgs))

\* LogCapture.flush: if self.buffer.strip(): send it; then empty the buffer
LogCaptureFlush(io, cap) ==
  IF IsBlank(io.buffer[cap]) THEN io
  ELSE [SendOne(io, cap.run, OutputLog(OutputKind, io.buffer[cap]))
          EXCEPT !.buffer[cap] = <<>>]

\* A multiplexer whose capture is one binding for the whole process rather
\* than one per thread.
StdoutWriteShared(io, text, tl) ==
  IF sys_stdout.kind = "mux" /\ \E r \in Runs : tl_flow[r].kind = "capture"
  THEN LogCaptureWrite(io, CHOOSE c \in {tl_flow[r] : r \in Runs} : c.kind = "capture", text)
  ELSE ToReal(io, text)

\* A write or flush through sys.stdout by a thread whose thread-local
\* log_capture is tl (NoCapture for a thread that has none).
\* ThreadAwareStdout.write / flush route by tl.
StdoutWrite(io, text, tl) ==
  IF sys_stdout.kind = "capture" THEN LogCaptureWrite(io, sys_stdout, text)
  ELSE IF sys_stdout.kind = "mux" /\ tl.kind = "capture" THEN LogCaptureWrite(io, tl, text)
  ELSE ToReal(io, text)

StdoutFlush(io, tl) ==
  IF sys_stdout.kind = "capture" THEN LogCaptureFlush(io, sys_stdout)
  ELSE IF sys_stdout.kind = "mux" /\ tl.kind = "capture" THEN LogCaptureFlush(io, tl)
  ELSE io

\* ------------------------------------------------ executor.py: the handler
TaskDef(r) == tasks[r][i[r] + 1]
\* A thread that counts as over when its estimate has run out.
AliveWithinEstimate(r) ==
  tpc[r] # "dead" /\ elapsed_ms[r] < TaskDef(r).estimated_time

\* task_thread.is_alive(); join() returns when it is false
ThreadAlive(r) == tpc[r] # "dead"

\* A lookup that takes any name for a registered flow.
FoundAlways(name) == TRUE

\* for f in registry.get_flows(): if f.name == request.flow_name
Found(name) == name \in RegisteredFlows

\* create_execution_handler.threaded_handler: one thread per request.
threaded_handler(r) ==
  /\ mode = "executor"
  /\ r \in pending
  /\ pending' = pending \ {r}
  /\ pc' = [pc EXCEPT ![r] = "received"]
  /\ wpc' = [wpc EXCEPT ![r] = "handling"]
  /\ UNCHANGED <<listenVars, callbacks, inputVars, execVars, trackVars, clockVars, tpc,
                 task_result, sys_stdout, buffer, sent, real_out>>

\* handle_execution_request up to the task loop: the initial logs, the
\* lookup of request.flow_name among registry.get_flows(), and analyze_flow,
\* which is called before the try block: when inspect.getsource raises, the
\* exception leaves the handler and ends the wrapped_execution thread.
resolve_flow(r) ==
  /\ mode = "executor"
  /\ pc[r] = "received"
  /\ IF ~Found(flow_name[r])
     THEN /\ Commit(Send(Io, r, <<Log("received", Absent, ""),
                                  Log("initializing", Absent, ""),
                                  Log("flow not found", Absent, "")>>))
          /\ pc' = [pc EXCEPT ![r] = "returned"]
          /\ wpc' = wpc
     ELSE /\ Commit(Send(Io, r, <<Log("received", Absent, ""),
                                  Log("initializing", Absent, "")>>))
          /\ IF analyzable[r]
             THEN pc' = [pc EXCEPT ![r] = "loop"] /\ wpc' = wpc
             ELSE pc' = [pc EXCEPT ![r] = "escaped"] /\ wpc' = [wpc EXCEPT ![r] = "died"]
  /\ i' = [i EXCEPT ![r] = 0]
  /\ UNCHANGED <<listenVars, callbacks, inputVars, pending, trackVars, clockVars,
                 elapsed_ms, last_progress, old_stdout, tpc, task_result, sys_stdout>>

\* One iteration's head: the "Starting task" log, RUNNING at 0, task_start,
\* and the start of the task's thread.
start_task(r) ==
  /\ mode = "executor"
  /\ pc[r] = "loop"
  /\ i[r] < Len(tasks[r])
  /\ Commit(Send(Io, r, <<Log("starting task", i[r], ""),
                          Upd(i[r], "RUNNING", 0, Absent, "", "")>>))
  /\ now' = [now EXCEPT ![r] = 0]
  /\ polls' = polls
  /\ elapsed_ms' = [elapsed_ms EXCEPT ![r] = 0]
  /\ last_progress' = [last_progress EXCEPT ![r] = 0]
  /\ task_result' = [task_result EXCEPT ![r] = Unset]
  /\ tpc' = [tpc EXCEPT ![r] = "start"]
  /\ pc' = [pc EXCEPT ![r] = "progress"]
  /\ UNCHANGED <<hostVars, inputVars, pending, trackVars, i, old_stdout, sys_stdout>>

\* A percentage with no ceiling.
Uncapped(elapsed, estimated) == (elapsed * 100) \div estimated

\* progress = min(99, int((elapsed_ms / estimated_ms) * 100))
Progress(elapsed, estimated) ==
  LET p == (elapsed * 100) \div estimated
  IN IF p < ProgressCap THEN p ELSE ProgressCap

\* A loop that reports after every sleep.
ReportsAlways(progress, last) == TRUE

\* if progress > last_progress: send it
ShouldReport(progress, last) == progress > last

\* One iteration of the progress loop: sleep, measure, report.
progress_loop(r) ==
  /\ mode = "executor"
  /\ pc[r] = "progress"
  /\ ThreadAlive(r)
  /\ elapsed_ms[r] < TaskDef(r).estimated_time
  /\ polls[r] < env.polls
  /\ polls' = [polls EXCEPT ![r] = @ + 1]
  /\ \E slept \in env.sleeps :
       /\ now' = [now EXCEPT ![r] = @ + slept]
       /\ elapsed_ms' = [elapsed_ms EXCEPT ![r] = now[r] + slept]
       /\ LET progress == Progress(now[r] + slept, TaskDef(r).estimated_time)
          IN IF ShouldReport(progress, last_progress[r])
             THEN /\ Commit(Send(Io, r, <<Upd(i[r], "RUNNING", progress, Absent, "", "")>>))
                  /\ last_progress' = [last_progress EXCEPT ![r] = progress]
             ELSE UNCHANGED <<buffer, sent, real_out, last_progress>>
  /\ UNCHANGED <<hostVars, inputVars, pending, trackVars, pc, i, old_stdout, tpc,
                 task_result, sys_stdout>>

\* The loop's exit: the thread has ended or the estimate has run out.
progress_loop_exit(r) ==
  /\ mode = "executor"
  /\ pc[r] = "progress"
  /\ ~(ThreadAlive(r) /\ elapsed_ms[r] < TaskDef(r).estimated_time)
  /\ pc' = [pc EXCEPT ![r] = "join"]
  /\ UNCHANGED <<hostVars, inputVars, pending, trackVars, execVars, clockVars, tpc, task_result,
                 sys_stdout, buffer, sent, real_out>>

\* ------------------------------------- executor.py: execute_task (the thread)
\* old_stdout = sys.stdout
execute_task_save(r) ==
  /\ mode = "executor"
  /\ tpc[r] = "start"
  /\ old_stdout' = [old_stdout EXCEPT ![r] = sys_stdout]
  /\ tpc' = [tpc EXCEPT ![r] = "saved"]
  /\ UNCHANGED <<hostVars, inputVars, pending, trackVars, clockVars, pc, i, elapsed_ms,
                 last_progress, task_result, sys_stdout, buffer, sent, real_out>>

\* sys.stdout = LogCapture(self.client, request.run_id)
execute_task_swap(r) ==
  /\ mode = "executor"
  /\ tpc[r] = "saved"
  /\ sys_stdout' = LogCapture(r, i[r])
  /\ buffer' = [buffer EXCEPT ![LogCapture(r, i[r])] = <<>>]
  /\ tpc' = [tpc EXCEPT ![r] = "func"]
  /\ UNCHANGED <<hostVars, inputVars, pending, trackVars, execVars, clockVars, pc, task_result,
                 sent, real_out>>

\* task_def.func() prints: the text goes to whatever sys.stdout is now.
execute_task_print(r) ==
  /\ mode = "executor"
  /\ tpc[r] = "func"
  /\ Commit(StdoutWrite(Io, Text(TaskDef(r).func.prints, r), NoCapture))
  /\ tpc' = [tpc EXCEPT ![r] = "printed"]
  /\ UNCHANGED <<hostVars, inputVars, pending, trackVars, execVars, clockVars, pc, task_result,
                 sys_stdout>>

\* task_def.func() returns or raises; finally: sys.stdout.flush()
execute_task_flush(r) ==
  /\ mode = "executor"
  /\ tpc[r] = "printed"
  /\ Commit(StdoutFlush(Io, NoCapture))
  /\ tpc' = [tpc EXCEPT ![r] = "flushed"]
  /\ UNCHANGED <<hostVars, inputVars, pending, trackVars, execVars, clockVars, pc, task_result,
                 sys_stdout>>

\* sys.stdout = old_stdout; task_result or task_error is set; the thread ends.
execute_task_restore(r) ==
  /\ mode = "executor"
  /\ tpc[r] = "flushed"
  /\ sys_stdout' = old_stdout[r]
  /\ task_result' = [task_result EXCEPT ![r] = TaskDef(r).func.ends]
  /\ tpc' = [tpc EXCEPT ![r] = "dead"]
  /\ UNCHANGED <<hostVars, inputVars, pending, trackVars, execVars, clockVars, pc, buffer, sent, real_out>>

\* ------------------------------- executor.py: after task_thread.join()
\* error_result = {'passed': False, 'note': str(e), 'table': []}
ErrorUpd(idx, dur, note) == Upd(idx, "FAILED", 0, dur, "false", note)

\* result_dict = task_result.to_dict() if it is a TaskResult, else None
ResultPassed(res) ==
  IF res.kind = "result" THEN (IF res.passed THEN "true" ELSE "false") ELSE ""

\* A handler that logs a task's error and never reports its state.
TaskErrorUnreported(idx, def, res, dur) ==
  <<Log("task failed", idx, res.note)>>
  \o (IF def.crucial_pass THEN <<Log("flow failed", Absent, res.note)>> ELSE <<>>)

\* A handler whose non-crucial failure goes on to the completion report.
TaskErrorThenDone(idx, def, res, dur) ==
  <<ErrorUpd(idx, dur, res.note), Log("task failed", idx, res.note)>>
  \o (IF def.crucial_pass
      THEN <<ErrorUpd(idx, Absent, res.note), Log("flow failed", Absent, res.note)>>
      ELSE <<Log("non-crucial, continuing", idx, ""),
             Upd(idx, "COMPLETED", Done100, dur, "", res.note),
             Log("task completed", idx, "")>>)

\* The `if task_error:` branch, and `raise task_error` caught by the
\* handler's own `except Exception`.
TaskErrorMsgs(idx, def, res, dur) ==
  <<ErrorUpd(idx, dur, res.note), Log("task failed", idx, res.note)>>
  \o (IF def.crucial_pass
      THEN <<ErrorUpd(idx, Absent, res.note), Log("flow failed", Absent, res.note)>>
      ELSE <<Log("non-crucial, continuing", idx, "")>>)

\* A handler that logs the completion of a task and never reports its state.
TaskDoneUnreported(idx, res, dur) == <<Log("task completed", idx, "")>>

\* The path with no task_error: the result log, COMPLETED at 100, the
\* completion log.
TaskDoneMsgs(idx, res, dur) ==
  (IF res.kind = "result" THEN <<Log("task result", idx, res.note)>> ELSE <<>>)
  \o <<Upd(idx, "COMPLETED", Done100, dur, ResultPassed(res), res.note),
       Log("task completed", idx, "")>>

\* A handler that goes on after every task, and one that stops at any raise.
ContinuesRegardless(def, res) == TRUE
StopsOnAnyRaise(def, res) == res.kind # "raise"

\* Whether the run goes on to the next task after this one.
Continues(def, res) == ~(res.kind = "raise" /\ def.crucial_pass)

\* task_thread.join() and everything up to the next iteration (or the
\* except block).
join_and_report(r) ==
  /\ mode = "executor"
  /\ pc[r] = "join"
  /\ ~ThreadAlive(r)
  /\ LET res == task_result[r]
         dur == now[r]
     IN /\ Commit(Send(Io, r, IF res.kind = "raise"
                              THEN TaskErrorMsgs(i[r], TaskDef(r), res, dur)
                              ELSE TaskDoneMsgs(i[r], res, dur)))
        /\ IF Continues(TaskDef(r), res)
           THEN /\ pc' = [pc EXCEPT ![r] = "loop"]
                /\ i' = [i EXCEPT ![r] = @ + 1]
           ELSE /\ pc' = [pc EXCEPT ![r] = "returned"]
                /\ i' = i
  /\ tpc' = [tpc EXCEPT ![r] = "none"]
  /\ UNCHANGED <<hostVars, inputVars, pending, trackVars, clockVars, elapsed_ms,
                 last_progress, old_stdout, task_result, sys_stdout>>

\* The loop has run every task: the flow-level success log.
flow_completed(r) ==
  /\ mode = "executor"
  /\ pc[r] = "loop"
  /\ i[r] = Len(tasks[r])
  /\ Commit(Send(Io, r, <<Log("flow completed successfully", Absent, "")>>))
  /\ pc' = [pc EXCEPT ![r] = "returned"]
  /\ UNCHANGED <<hostVars, inputVars, pending, trackVars, execVars, clockVars, tpc, task_result,
                 sys_stdout>>

\* client.stop_listening(): both flags down (the session is replaced)
StopListening ==
  /\ listening' = FALSE
  /\ heartbeat_running' = FALSE
  /\ stopped' = TRUE

\* listen's on_flow_complete: count the completion under the lock; when
\* every registered flow has completed, stop listening.
OnFlowComplete ==
  /\ completed_count' = completed_count + 1
  /\ IF completed_count + 1 >= Cardinality(RegisteredFlows)
     THEN StopListening
     ELSE UNCHANGED <<listening, heartbeat_running, stopped>>

\* wrapped_execution after handle_execution_request has returned:
\* if on_flow_complete: on_flow_complete(request.flow_name)
executor_callback(r) ==
  /\ mode = "executor"
  /\ wpc[r] = "handling"
  /\ pc[r] = "returned"
  /\ callbacks' = [callbacks EXCEPT ![r] = Append(@, flow_name[r])]
  /\ wpc' = [wpc EXCEPT ![r] = "done"]
  /\ OnFlowComplete
  /\ UNCHANGED <<inputVars, pending, pc, execVars, trackVars, clockVars, tpc,
                 task_result, sys_stdout, buffer, sent, real_out, lpc, hpc, requests>>

\* The steps of the threads of request r: its dispatch, its handler and the
\* thread of its current task.
ExecutorStep(r) ==
  \/ threaded_handler(r)
  \/ executor_callback(r)
  \/ resolve_flow(r)
  \/ start_task(r)
  \/ progress_loop(r)
  \/ progress_loop_exit(r)
  \/ join_and_report(r)
  \/ flow_completed(r)
  \/ execute_task_save(r)
  \/ execute_task_swap(r)
  \/ execute_task_print(r)
  \/ execute_task_flush(r)
  \/ execute_task_restore(r)

ExecutorNext == \E r \in Runs : ExecutorStep(r)

\* ------------------------------------ api.py: the listener and its heartbeat
runVars == <<pending, pc, tpc, task_result, sys_stdout, buffer, sent, real_out, execVars, trackVars,
             clockVars, inputVars, callbackVars>>

\* The listener is inside the try block of listen_for_executions.
InPollLoop == lpc \in {"check", "poll", "callback", "retry"}

\* A loop that does not read its flag.
LoopsRegardless(flag) == TRUE

\* while self._listening / while self._heartbeat_running
KeepsLooping(flag) == flag

\* The callback create_execution_handler returns.
Handler == "threaded_handler"

\* on_execution_request(callback): self._execution_callback = callback
on_execution_request ==
  /\ lpc \in {"idle", "raised"}
  /\ execution_callback' = Handler
  /\ UNCHANGED <<pending, pc, tpc, task_result, sys_stdout, buffer, sent, real_out, execVars,
                 trackVars, clockVars, settingVars, func_calls, callbackVars, listenVars>>

\* A test that lets every caller through.
AnyCallback(callback) == TRUE

\* if not self._execution_callback: raise ValueError
HasCallback(callback) == callback # None

\* listen_for_executions up to the loop: with no callback registered it
\* raises ValueError and the call is over; with one, both flags are raised
\* and the heartbeat thread is started.
listen_for_executions ==
  /\ lpc \in {"idle", "raised"}
  /\ IF HasCallback(execution_callback)
     THEN /\ listening' = TRUE
          /\ heartbeat_running' = TRUE
          /\ hpc' = "check"
          /\ lpc' = "check"
     ELSE /\ lpc' = "raised"
          /\ UNCHANGED <<listening, heartbeat_running, hpc>>
  /\ UNCHANGED <<runVars, completed_count, stopped, requests>>

\* while self._listening: the next poll is started, or the loop is left.
poll_loop ==
  /\ lpc = "check"
  /\ lpc' = IF KeepsLooping(listening) THEN "poll" ELSE "finally"
  /\ UNCHANGED <<runVars, completed_count, listening, heartbeat_running, hpc, stopped, requests>>

\* The GET times out, or answers without a request: poll again.
poll_empty ==
  /\ lpc = "poll"
  /\ lpc' = "check"
  /\ UNCHANGED <<runVars, completed_count, listening, heartbeat_running, hpc, stopped, requests>>

\* The GET answers with the request of run r: the callback is called with it.
poll_request(r) ==
  /\ lpc = "poll"
  /\ r \in requests
  /\ requests' = requests \ {r}
  /\ pending' = pending \cup {r}
  /\ lpc' = "callback"
  /\ UNCHANGED <<pc, tpc, task_result, sys_stdout, buffer, sent, real_out, execVars, trackVars,
                 clockVars, inputVars, callbackVars, completed_count, listening,
                 heartbeat_running, hpc, stopped>>

\* The callback has started the thread of the request and returned.
callback_returned ==
  /\ lpc = "callback"
  /\ pending = {}
  /\ lpc' = "check"
  /\ UNCHANGED <<runVars, completed_count, listening, heartbeat_running, hpc, stopped, requests>>

\* The GET fails with a RequestException (a closed session included): the
\* loop sleeps poll_interval only if it is still listening.
poll_error ==
  /\ lpc = "poll"
  /\ lpc' = IF listening THEN "retry" ELSE "check"
  /\ UNCHANGED <<runVars, completed_count, listening, heartbeat_running, hpc, stopped, requests>>

\* time.sleep(poll_interval) is over.
retry_sleep ==
  /\ lpc = "retry"
  /\ lpc' = "check"
  /\ UNCHANGED <<runVars, completed_count, listening, heartbeat_running, hpc, stopped, requests>>

\* Ctrl+C in the listening thread: except KeyboardInterrupt.
keyboard_interrupt ==
  /\ lpc \in {"poll", "retry"}
  /\ lpc' = "finally"
  /\ UNCHANGED <<runVars, completed_count, listening, heartbeat_running, hpc, stopped, requests>>

\* finally: both flags down, and listen_for_executions returns.
listen_finally ==
  /\ lpc = "finally"
  /\ listening' = FALSE
  /\ heartbeat_running' = FALSE
  /\ lpc' = "returned"
  /\ UNCHANGED <<runVars, completed_count, hpc, stopped, requests>>

\* stop_listening called by another thread while the listener polls.
stop_listening ==
  /\ InPollLoop
  /\ ~stopped
  /\ StopListening
  /\ UNCHANGED <<runVars, completed_count, lpc, hpc, requests>>

\* _heartbeat_loop: while self._heartbeat_running
heartbeat_loop ==
  /\ hpc = "check"
  /\ hpc' = IF KeepsLooping(heartbeat_running) THEN "beat" ELSE "exited"
  /\ UNCHANGED <<runVars, completed_count, listening, heartbeat_running, lpc, stopped, requests>>

\* send_heartbeat(), whatever its result
send_heartbeat ==
  /\ hpc = "beat"
  /\ hpc' = "sleep"
  /\ UNCHANGED <<runVars, completed_count, listening, heartbeat_running, lpc, stopped, requests>>

\* time.sleep(interval) is over.
heartbeat_sleep ==
  /\ hpc = "sleep"
  /\ hpc' = "check"
  /\ UNCHANGED <<runVars, completed_count, listening, heartbeat_running, lpc, stopped, requests>>

ListenerStep ==
  \/ listen_for_executions
  \/ poll_loop
  \/ poll_empty
  \/ \E r \in Runs : poll_request(r)
  \/ callback_returned
  \/ poll_error
  \/ retry_sleep
  \/ keyboard_interrupt
  \/ listen_finally

HeartbeatStep ==
  \/ heartbeat_loop
  \/ send_heartbeat
  \/ heartbeat_sleep

ListenNext == ListenerStep \/ HeartbeatStep \/ stop_listening \/ ExecutorNext

ClientNext == on_execution_request \/ ListenNext

\* The process ends when its last non-daemon thread has ended, that is when
\* listen_for_executions has returned and client.close() is done: the
\* daemon threads still running (wrapped_execution, their task threads, the
\* heartbeat) end with it, wherever they are.
Killed(at) == IF at \in {"none", "idle", "done", "died", "returned", "exited"} THEN at ELSE "killed"

process_exit ==
  /\ lpc = "returned"
  /\ lpc' = "exited"
  /\ hpc' = Killed(hpc)
  /\ wpc' = [r \in Runs |-> Killed(wpc[r])]
  /\ pc' = [r \in Runs |-> IF Killed(wpc[r]) = "killed" THEN "killed" ELSE pc[r]]
  /\ tpc' = [r \in Runs |-> IF Killed(wpc[r]) = "killed" THEN "killed" ELSE tpc[r]]
  /\ UNCHANGED <<pending, task_result, sys_stdout, buffer, sent, real_out, execVars, trackVars,
                 clockVars, inputVars, callbacks, completed_count, listening,
                 heartbeat_running, stopped, requests>>

\* A process that nobody interrupts.
HostNext ==
  \/ listen_for_executions
  \/ poll_loop
  \/ poll_empty
  \/ \E r \in Runs : poll_request(r)
  \/ callback_returned
  \/ poll_error
  \/ retry_sleep
  \/ listen_finally
  \/ HeartbeatStep
  \/ ExecutorNext
  \/ process_exit

\* ------------------------------------ sdk.py: the registry and analyze_flow
\* Function names are texts: the analysis looks for them in the flow's source.
TaskNames == {<<"f">>, <<"f", "f">>, <<"g">>}
FlowFuncs == {"p", "q"}
UnknownFunc == "z"
RegTimes == {1000}

\* f"{task_name}("
CallForm(name) == name \o <<"(">>
\* A search that finds the call form only where a name starts.
ContainsAsWord(source, pattern) ==
  \E k \in 0..(Len(source) - Len(pattern)) :
    /\ SubSeq(source, k + 1, k + Len(pattern)) = pattern
    /\ k > 0 => source[k] = "("

\* pattern in source
Contains(source, pattern) ==
  \E k \in 0..(Len(source) - Len(pattern)) :
    SubSeq(source, k + 1, k + Len(pattern)) = pattern

RECURSIVE Concat(_)
Concat(texts) == IF texts = <<>> THEN <<>> ELSE Head(texts) \o Concat(Tail(texts))

\* The source texts of the flow functions: at most MaxCalls calls.
Sources == {Concat(calls) : calls \in SeqsUpTo({CallForm(n) : n \in TaskNames}, MaxCalls)}

\* dict[key] = value
Put(dict, key, value) ==
  [k \in DOMAIN dict \cup {key} |-> IF k = key THEN value ELSE dict[k]]

Position(name) == CHOOSE k \in 1..Len(reg_tasks) : reg_tasks[k].name = name

\* An analysis that adds what it finds to the list the flow has.
AnalyzeAppending(registered, flows, func) ==
  [flows EXCEPT ![func].tasks =
     @ \o SelectSeq(registered, LAMBDA t : Contains(flows[func].source, CallForm(t.name)))]

\* _analyze_flow for a registered flow: tasks_in_flow is built from an
\* empty list over self._tasks.items() and assigned to flow_def.tasks.
AnalyzeFlow(registered, flows, func) ==
  [flows EXCEPT ![func].tasks =
     SelectSeq(registered, LAMBDA t : Contains(flows[func].source, CallForm(t.name)))]

\* @task: self._tasks[func.__name__] = task_def
register_task(name, estimated_time) ==
  /\ mode = "registry"
  /\ reg_tasks' =
       LET task_def == [name |-> name, estimated_time |-> estimated_time]
       IN IF \E k \in 1..Len(reg_tasks) : reg_tasks[k].name = name
          THEN [reg_tasks EXCEPT ![Position(name)] = task_def]
          ELSE Append(reg_tasks, task_def)
  /\ analysis' = <<>>
  /\ UNCHANGED <<reg_flows, analyze_result, captureVars, writeVars, counterVars, func_calls, execution_callback, mode, env, flow_name, tasks,
                 analyzable, drops, pending, pc, tpc, task_result, sys_stdout, buffer, sent, real_out,
                 execVars, trackVars, clockVars, hostVars>>

\* @flow: self._flows[func.__name__] = flow_def, with an empty tasks list
register_flow(func, source) ==
  /\ mode = "registry"
  /\ reg_flows' = Put(reg_flows, func, [source |-> source, tasks |-> <<>>])
  /\ analysis' = <<>>
  /\ UNCHANGED <<reg_tasks, analyze_result, captureVars, writeVars, counterVars, func_calls, execution_callback, mode, env, flow_name, tasks,
                 analyzable, drops, pending, pc, tpc, task_result, sys_stdout, buffer, sent, real_out,
                 execVars, trackVars, clockVars, hostVars>>

\* A lookup that enters the name it does not find, with nothing in it.
EnteredEmpty(flows, func) == Put(flows, func, [source |-> <<>>, tasks |-> <<>>])

\* raise ValueError(f"Flow {flow_name} not found"): self._flows as it was
Refused(flows, func) == flows

\* analyze_flow(flow_name): ValueError for a name that is not registered,
\* else the flow's tasks are set and the flow definition is returned.
analyze_flow(func) ==
  /\ mode = "registry"
  /\ func \in DOMAIN analysis => analysis[func].calls < MaxAnalyses
  /\ IF func \notin DOMAIN reg_flows
     THEN /\ analyze_result' = [of |-> func, ended |-> "ValueError"]
          /\ reg_flows' = Refused(reg_flows, func)
          /\ analysis' = analysis
     ELSE /\ reg_flows' = AnalyzeFlow(reg_tasks, reg_flows, func)
          /\ analysis' = Put(analysis, func,
               [tasks |-> reg_flows'[func].tasks,
                calls |-> IF func \in DOMAIN analysis THEN analysis[func].calls + 1 ELSE 1])
          /\ analyze_result' = [of |-> func, ended |-> "returned"]
  /\ UNCHANGED <<reg_tasks, captureVars, writeVars, counterVars, func_calls, execution_callback, mode, env, flow_name, tasks,
                 analyzable, drops, pending, pc, tpc, task_result, sys_stdout, buffer, sent, real_out,
                 execVars, trackVars, clockVars, hostVars>>

RegistryNext ==
  \/ \E name \in TaskNames, estimated_time \in RegTimes : register_task(name, estimated_time)
  \/ \E func \in FlowFuncs, source \in Sources : register_flow(func, source)
  \/ \E func \in FlowFuncs \cup {UnknownFunc} : analyze_flow(func)

\* ------------------------------------ LogCapture, used on its own
\* One capture, of run a, written to by one thread; mode tells whether it is
\* the LogCapture of sdk.py ("executor") or of perfect/sdk.py ("tracked").
TheCapture == LogCapture("a", 0)
CaptureChars == {"x", " ", "\n"}
\* What one call of write is given: print gives the text and the line end
\* in two calls, a caller of write may give both in one.
Written ==
  {[k \in 1..Len(t) |-> Char(t[k], "a")] : t \in SeqsUpTo(CaptureChars, 2) \ {<<>>}}

\* capture.write(text)
capture_write(text) ==
  /\ mode \in {"executor", "tracked"}
  /\ Len(written) + Len(text) <= MaxWritten
  /\ Commit(LogCaptureWrite(Io, TheCapture, text))
  /\ written' = written \o text
  /\ cap_op' = "write"
  /\ UNCHANGED <<carry, mark, prior, registryVars, writeVars, counterVars, func_calls, execution_callback, mode, env, flow_name, tasks, analyzable,
                 drops, pending, pc, tpc, task_result, sys_stdout, execVars, trackVars,
                 clockVars, hostVars>>

\* capture.flush()
capture_flush ==
  /\ mode \in {"executor", "tracked"}
  /\ Commit(LogCaptureFlush(Io, TheCapture))
  /\ prior' = buffer[TheCapture]
  /\ carry' = buffer'[TheCapture]
  /\ mark' = [written |-> Len(written), sent |-> Len(sent'["a"])]
  /\ cap_op' = "flush"
  /\ UNCHANGED <<written, registryVars, writeVars, counterVars, func_calls, execution_callback, mode, env, flow_name, tasks, analyzable,
                 drops, pending, pc, tpc, task_result, sys_stdout, execVars, trackVars,
                 clockVars, hostVars>>

CaptureNext ==
  \/ \E text \in Written : capture_write(text)
  \/ capture_flush

\* ------------- perfect/sdk.py: LogCapture.write, step by step, two threads
\* What a thread gives to write: the flow thread writes f, the task thread
\* x; print gives the text and the line end in two calls.
Mark(t) == IF t = "flow" THEN "f" ELSE "x"
Arguments(t) ==
  {<<Char(Mark(t), "a")>>, <<Char("\n", "a")>>, <<Char(Mark(t), "a"), Char("\n", "a")>>}

\* A lock that never makes a thread wait.
AcquiresAtOnce(holder) == TRUE

\* with self._lock: the thread goes on when no thread holds the lock
CanAcquire(holder) == holder = None

\* write(text) is called: sys.__stdout__.write(text); flush()
shared_write(t, text) ==
  /\ mode = "tracked"
  /\ wr_pc[t] = "idle"
  /\ writes[t] < MaxShared
  /\ writes' = [writes EXCEPT ![t] = @ + 1]
  /\ text_arg' = [text_arg EXCEPT ![t] = text]
  /\ Commit(ToReal(Io, text))
  /\ wr_pc' = [wr_pc EXCEPT ![t] = "with lock"]
  /\ UNCHANGED <<lock, loaded, order, captureVars, registryVars, counterVars, func_calls, execution_callback, mode, env, flow_name,
                 tasks, analyzable, drops, pending, pc, tpc, task_result, sys_stdout,
                 execVars, trackVars, clockVars, hostVars>>

\* with self._lock: (entered)
shared_acquire(t) ==
  /\ wr_pc[t] = "with lock"
  /\ CanAcquire(lock)
  /\ lock' = t
  /\ order' = Append(order, text_arg[t])
  /\ wr_pc' = [wr_pc EXCEPT ![t] = "load"]
  /\ UNCHANGED <<text_arg, loaded, writes, captureVars, registryVars, counterVars, func_calls, execution_callback, mode, env, flow_name,
                 tasks, analyzable, drops, pending, pc, tpc, task_result, sys_stdout,
                 buffer, sent, real_out, execVars, trackVars, clockVars, hostVars>>

\* self.buffer += text, first half: self.buffer is read
shared_load(t) ==
  /\ wr_pc[t] = "load"
  /\ loaded' = [loaded EXCEPT ![t] = buffer[TheCapture]]
  /\ wr_pc' = [wr_pc EXCEPT ![t] = "store"]
  /\ UNCHANGED <<lock, text_arg, writes, order, captureVars, registryVars, counterVars, func_calls, execution_callback, mode, env,
                 flow_name, tasks, analyzable, drops, pending, pc, tpc, task_result,
                 sys_stdout, buffer, sent, real_out, execVars, trackVars, clockVars,
                 hostVars>>

\* self.buffer += text, second half: the sum is stored
shared_store(t) ==
  /\ wr_pc[t] = "store"
  /\ buffer' = [buffer EXCEPT ![TheCapture] = loaded[t] \o text_arg[t]]
  /\ wr_pc' = [wr_pc EXCEPT ![t] = "while"]
  /\ UNCHANGED <<lock, text_arg, loaded, writes, order, captureVars, registryVars, counterVars, func_calls, execution_callback, mode,
                 env, flow_name, tasks, analyzable, drops, pending, pc, tpc, task_result,
                 sys_stdout, sent, real_out, execVars, trackVars, clockVars, hostVars>>

\* while '\n' in self.buffer: one line leaves the buffer and, unless blank,
\* is sent; with no line end in the buffer the loop is left.
shared_loop(t) ==
  /\ wr_pc[t] = "while"
  /\ IF HasNewline(buffer[TheCapture])
     THEN LET buf == buffer[TheCapture]
              k == FirstNewline(buf)
              line == SubSeq(buf, 1, k - 1)
              io1 == [Io EXCEPT !.buffer[TheCapture] = SubSeq(buf, k + 1, Len(buf))]
          IN /\ Commit(IF IsBlank(line) THEN io1
                       ELSE SendOne(io1, TheCapture.run, OutputLog(OutputKind, line)))
             /\ wr_pc' = wr_pc
     ELSE /\ wr_pc' = [wr_pc EXCEPT ![t] = "release"]
          /\ UNCHANGED <<buffer, sent, real_out>>
  /\ UNCHANGED <<lock, text_arg, loaded, writes, order, captureVars, registryVars, counterVars, func_calls, execution_callback, mode,
                 env, flow_name, tasks, analyzable, drops, pending, pc, tpc, task_result,
                 sys_stdout, execVars, trackVars, clockVars, hostVars>>

\* the with block is left: the lock is released and write returns
shared_release(t) ==
  /\ wr_pc[t] = "release"
  /\ lock' = None
  /\ wr_pc' = [wr_pc EXCEPT ![t] = "idle"]
  /\ UNCHANGED <<text_arg, loaded, writes, order, captureVars, registryVars, counterVars, func_calls, execution_callback, mode, env,
                 flow_name, tasks, analyzable, drops, pending, pc, tpc, task_result,
                 sys_stdout, buffer, sent, real_out, execVars, trackVars, clockVars,
                 hostVars>>

SharedNext ==
  \E t \in Threads :
    \/ \E text \in Arguments(t) : shared_write(t, text)
    \/ shared_acquire(t)
    \/ shared_load(t)
    \/ shared_store(t)
    \/ shared_loop(t)
    \/ shared_release(t)

\* ------------------------- sdk.py: listen and on_flow_complete, step by step
\* What no step of listen or of its completion callback changes.
counterFrame == <<pending, pc, tpc, task_result, sys_stdout, buffer, sent, real_out,
                  execVars, trackVars, clockVars, callbackVars, func_calls, mode, env, flow_name,
                  tasks, analyzable, drops, registryVars, captureVars, writeVars>>

\* listen() with n flows registered: total_flows = len(get_flows()), the
\* count at zero, the handler registered, and listen_for_executions entered.
listen(n) ==
  /\ lpc = "idle"
  /\ execution_callback' = Handler
  /\ total_flows' = n
  /\ completed_count' = 0
  /\ listening' = TRUE
  /\ heartbeat_running' = TRUE
  /\ hpc' = "check"
  /\ lpc' = "check"
  /\ UNCHANGED <<counterFrame, count_lock, cb_pc, cb_loaded, stops, stopped, requests>>

\* on_flow_complete called by a wrapped_execution thread: with lock (entered)
callback_acquire(d) ==
  /\ lpc # "idle"
  /\ cb_pc[d] = "running"
  /\ CanAcquire(count_lock)
  /\ count_lock' = "held"
  /\ cb_pc' = [cb_pc EXCEPT ![d] = "load"]
  /\ UNCHANGED <<counterFrame, execution_callback, listenVars, total_flows, cb_loaded, stops>>

\* completed_count['value'] += 1, first half: the value is read
callback_load(d) ==
  /\ cb_pc[d] = "load"
  /\ cb_loaded' = [cb_loaded EXCEPT ![d] = completed_count]
  /\ cb_pc' = [cb_pc EXCEPT ![d] = "store"]
  /\ UNCHANGED <<counterFrame, execution_callback, listenVars, total_flows, count_lock, stops>>

\* completed_count['value'] += 1, second half: the sum is stored
callback_store(d) ==
  /\ cb_pc[d] = "store"
  /\ completed_count' = cb_loaded[d] + 1
  /\ cb_pc' = [cb_pc EXCEPT ![d] = "test"]
  /\ UNCHANGED <<counterFrame, execution_callback, total_flows, count_lock, cb_loaded, stops, listening,
                 heartbeat_running, lpc, hpc, stopped, requests>>

\* if completed_count['value'] >= total_flows: client.stop_listening()
callback_test(d) ==
  /\ cb_pc[d] = "test"
  /\ IF completed_count >= total_flows
     THEN StopListening /\ stops' = stops + 1
     ELSE UNCHANGED <<listening, heartbeat_running, stopped, stops>>
  /\ cb_pc' = [cb_pc EXCEPT ![d] = "release"]
  /\ UNCHANGED <<counterFrame, execution_callback, total_flows, count_lock, cb_loaded, completed_count, lpc,
                 hpc, requests>>

\* the with block is left: the lock is released and the callback returns
callback_release(d) ==
  /\ cb_pc[d] = "release"
  /\ count_lock' = None
  /\ cb_pc' = [cb_pc EXCEPT ![d] = "done"]
  /\ UNCHANGED <<counterFrame, execution_callback, listenVars, total_flows, cb_loaded, stops>>

CounterNext ==
  \/ \E n \in Dispatches : listen(n)
  \/ \E d \in Dispatches :
       \/ callback_acquire(d)
       \/ callback_load(d)
       \/ callback_store(d)
       \/ callback_test(d)
       \/ callback_release(d)

\* ------------------------------------ perfect/sdk.py: the @flow wrapper
tracked_vars_exec == <<inputVars, execVars>>

\* wrapper, with the client connected, the flow registered and the run
\* created: the execution context of the calling thread is set.
flow_wrapper(r) ==
  /\ mode = "tracked"
  /\ r \in pending
  /\ pending' = pending \ {r}
  /\ run_id' = [run_id EXCEPT ![r] = r]
  /\ task_index' = [task_index EXCEPT ![r] = 0]
  /\ pc' = [pc EXCEPT ![r] = "ensure stdout"]
  /\ UNCHANGED <<hostVars, tracked_vars_exec, clockVars, tpc, task_result, sys_stdout, buffer,
                 sent, real_out, my_index, last_update_time, call, tl_flow, tl_task,
                 parent_log_capture, stdout_installed, instances, raised>>

\* _ensure_thread_aware_stdout: if not _stdout_installed
ensure_stdout_check(r) ==
  /\ mode = "tracked"
  /\ pc[r] = "ensure stdout"
  /\ pc' = [pc EXCEPT ![r] = IF stdout_installed THEN "start capture" ELSE "install"]
  /\ UNCHANGED <<hostVars, tracked_vars_exec, pending, clockVars, tpc, task_result, sys_stdout,
                 buffer, sent, real_out, trackVars>>

\* _thread_aware_stdout = ThreadAwareStdout(); sys.stdout = it; flag = True
ensure_stdout_install(r) ==
  /\ mode = "tracked"
  /\ pc[r] = "install"
  /\ instances' = instances + 1
  /\ sys_stdout' = ThreadAwareStdout
  /\ stdout_installed' = TRUE
  /\ pc' = [pc EXCEPT ![r] = "start capture"]
  /\ UNCHANGED <<hostVars, tracked_vars_exec, pending, clockVars, tpc, task_result, buffer, sent, real_out,
                 run_id, task_index, my_index, last_update_time, call, tl_flow,
                 tl_task, parent_log_capture, raised>>

\* log_capture = LogCapture(self._client, run_id); log_capture.start_capture()
start_capture(r) ==
  /\ mode = "tracked"
  /\ pc[r] = "start capture"
  /\ tl_flow' = [tl_flow EXCEPT ![r] = LogCapture(run_id[r], 0)]
  /\ buffer' = [buffer EXCEPT ![LogCapture(run_id[r], 0)] = <<>>]
  /\ call' = [call EXCEPT ![r] = 0]
  /\ func_calls' = [func_calls EXCEPT ![r] = @ + 1]
  /\ pc' = [pc EXCEPT ![r] = "body"]
  /\ UNCHANGED <<hostVars, settingVars, execution_callback, execVars, pending, clockVars, tpc, task_result, sys_stdout,
                 sent, real_out, run_id, task_index, my_index, last_update_time, tl_task,
                 parent_log_capture, stdout_installed, instances, raised>>

\* -------------------------- perfect/sdk.py: _execute_tracked_task
CalledDef(r) == tasks[r][call[r] + 1]

\* A task counter that is one value for the whole process.
SharedIndex(r) == task_index["a"]

\* run_id = self._current_run_id; task_index = self._current_task_index
NextIndex(r) == task_index[r]
\* self._current_task_index += 1
Incremented(index) == index + 1

\* The flow body calls its next task; the task wrapper finds a run id in the
\* context and tracks: index, "[Task] Executing" line, RUNNING at 0, thread.
execute_tracked_task(r) ==
  /\ mode = "tracked"
  /\ pc[r] = "body"
  /\ call[r] < Len(tasks[r])
  /\ run_id[r] # None
  /\ my_index' = [my_index EXCEPT ![r] = NextIndex(r)]
  /\ task_index' = [task_index EXCEPT ![r] = Incremented(task_index[r])]
  /\ Commit(Send(StdoutWrite(Io, FlowLine("E", r), tl_flow[r]), run_id[r],
                 <<Upd(NextIndex(r), "RUNNING", 0, Absent, "", "")>>))
  /\ now' = [now EXCEPT ![r] = 0]
  /\ polls' = polls
  /\ last_update_time' = [last_update_time EXCEPT ![r] = 0]
  /\ task_result' = [task_result EXCEPT ![r] = Unset]
  /\ parent_log_capture' = [parent_log_capture EXCEPT ![r] = tl_flow[r]]
  /\ tpc' = [tpc EXCEPT ![r] = "start"]
  /\ pc' = [pc EXCEPT ![r] = "polling"]
  /\ UNCHANGED <<hostVars, tracked_vars_exec, pending, sys_stdout, run_id, call, tl_flow,
                 tl_task, stdout_installed, instances, raised>>

\* A task thread that starts with no binding of its own.
StartsUnbound(parent) == NoCapture

\* if parent_log_capture is not None: _thread_local.log_capture = parent_log_capture
Inherited(parent) == IF parent.kind = "capture" THEN parent ELSE NoCapture

\* execute_task (the thread): inherit the parent's capture
tracked_task_inherit(r) ==
  /\ mode = "tracked"
  /\ tpc[r] = "start"
  /\ tl_task' = [tl_task EXCEPT ![r] = Inherited(parent_log_capture[r])]
  /\ tpc' = [tpc EXCEPT ![r] = "func"]
  /\ UNCHANGED <<hostVars, tracked_vars_exec, pending, clockVars, pc, task_result, sys_stdout,
                 buffer, sent, real_out, run_id, task_index, my_index, last_update_time, call,
                 tl_flow, parent_log_capture, stdout_installed, instances, raised>>

\* func(*args, **kwargs) prints
tracked_task_print(r) ==
  /\ mode = "tracked"
  /\ tpc[r] = "func"
  /\ Commit(StdoutWrite(Io, Text(CalledDef(r).func.prints, r), tl_task[r]))
  /\ tpc' = [tpc EXCEPT ![r] = "printed"]
  /\ UNCHANGED <<hostVars, tracked_vars_exec, pending, clockVars, pc, task_result, sys_stdout,
                 trackVars>>

\* func returns or raises; finally: _thread_local.log_capture = None
tracked_task_end(r) ==
  /\ mode = "tracked"
  /\ tpc[r] = "printed"
  /\ task_result' = [task_result EXCEPT ![r] = CalledDef(r).func.ends]
  /\ tl_task' = [tl_task EXCEPT ![r] = NoCapture]
  /\ tpc' = [tpc EXCEPT ![r] = "dead"]
  /\ UNCHANGED <<hostVars, tracked_vars_exec, pending, clockVars, pc, sys_stdout, buffer, sent, real_out,
                 run_id, task_index, my_index, last_update_time, call, tl_flow,
                 parent_log_capture, stdout_installed, instances, raised>>

\* while task_thread.is_alive(): sleep; a RUNNING update every 0.1 s
tracked_poll(r) ==
  /\ mode = "tracked"
  /\ pc[r] = "polling"
  /\ ThreadAlive(r)
  /\ polls[r] < env.polls
  /\ polls' = [polls EXCEPT ![r] = @ + 1]
  /\ \E slept \in env.sleeps :
       /\ now' = [now EXCEPT ![r] = @ + slept]
       /\ IF (now[r] + slept) - last_update_time[r] >= UpdatePeriod
          THEN /\ Commit(Send(Io, run_id[r],
                              <<Upd(my_index[r], "RUNNING", Absent, Absent, "", "")>>))
               /\ last_update_time' = [last_update_time EXCEPT ![r] = now[r] + slept]
          ELSE UNCHANGED <<buffer, sent, real_out, last_update_time>>
  /\ UNCHANGED <<hostVars, tracked_vars_exec, pending, pc, tpc, task_result, sys_stdout,
                 run_id, task_index, my_index, call, tl_flow, tl_task,
                 parent_log_capture, stdout_installed, instances, raised>>

\* Whether the result counts as passed: task_result.passed if it has one
TaskPassed(res) == IF res.kind = "result" THEN res.passed ELSE TRUE

\* The terminal update of _execute_tracked_task.
TrackedTerminal(idx, res, dur) ==
  IF res.kind = "raise" THEN Upd(idx, "FAILED", 0, dur, "false", res.note)
  ELSE IF ~TaskPassed(res) THEN Upd(idx, "FAILED", 0, dur, ResultPassed(res), res.note)
  ELSE Upd(idx, "COMPLETED", Done100, dur, ResultPassed(res), res.note)

TrackedFailed(res) == res.kind = "raise" \/ ~TaskPassed(res)

\* task_thread.join() and the report; a crucial failure raises into the flow
\* body, which lets it propagate to the wrapper.
tracked_join(r) ==
  /\ mode = "tracked"
  /\ pc[r] = "polling"
  /\ ~ThreadAlive(r)
  /\ LET res == task_result[r]
         def == CalledDef(r)
     IN /\ Commit(StdoutWrite(Send(Io, run_id[r],
                                   <<TrackedTerminal(my_index[r], res, now[r])>>),
                              FlowLine(IF TrackedFailed(res) THEN "F" ELSE "D", r),
                              tl_flow[r]))
        /\ IF TrackedFailed(res) /\ def.crucial_pass
           THEN /\ raised' = [raised EXCEPT ![r] = res.note]
                /\ pc' = [pc EXCEPT ![r] = "except"]
                /\ call' = call
           ELSE /\ raised' = raised
                /\ pc' = [pc EXCEPT ![r] = "body"]
                /\ call' = [call EXCEPT ![r] = @ + 1]
  /\ tpc' = [tpc EXCEPT ![r] = "none"]
  /\ UNCHANGED <<hostVars, tracked_vars_exec, pending, clockVars, task_result, sys_stdout,
                 run_id, task_index, my_index, last_update_time, tl_flow, tl_task,
                 parent_log_capture, stdout_installed, instances>>

\* The flow function returned: complete_flow(run_id, actual_task_count) and
\* the "[Flow] Completed" line.
flow_returned(r) ==
  /\ mode = "tracked"
  /\ pc[r] = "body"
  /\ call[r] = Len(tasks[r])
  /\ Commit(StdoutWrite(Send(Io, run_id[r], <<Complete(task_index[r])>>),
                        FlowLine("C", r), tl_flow[r]))
  /\ pc' = [pc EXCEPT ![r] = "finally"]
  /\ UNCHANGED <<hostVars, tracked_vars_exec, pending, clockVars, tpc, task_result, sys_stdout,
                 trackVars>>

\* A wrapper whose except clause reports the current task FAILED, as the
\* handler of FlowExecutor does.
flow_except_reports(r) ==
  /\ mode = "tracked"
  /\ pc[r] = "except"
  /\ Commit(StdoutWrite(Send(Io, run_id[r],
                             <<Upd(my_index[r], "FAILED", 0, Absent, "false", raised[r])>>),
                        FlowLine("X", r), tl_flow[r]))
  /\ pc' = [pc EXCEPT ![r] = "finally"]
  /\ UNCHANGED <<hostVars, tracked_vars_exec, pending, clockVars, tpc, task_result, sys_stdout,
                 trackVars>>

\* except Exception as e: the "[Flow] ... failed" line; raise
flow_except(r) ==
  /\ mode = "tracked"
  /\ pc[r] = "except"
  /\ Commit(StdoutWrite(Io, FlowLine("X", r), tl_flow[r]))
  /\ pc' = [pc EXCEPT ![r] = "finally"]
  /\ UNCHANGED <<hostVars, tracked_vars_exec, pending, clockVars, tpc, task_result, sys_stdout,
                 trackVars>>

\* A context that outlives the flow invocation.
ContextKept(r) == run_id[r]

\* self._current_run_id = None
ContextCleared(r) == None

\* except requests.exceptions.RequestException as e: what it catches
IsRequestException(e) == e = ConnectionError

\* finally: log_capture.stop_capture(); the context is cleared; an exception
\* goes on to the except clause of the enclosing try, which catches a
\* RequestException and lets any other leave the wrapper.
flow_finally(r) ==
  /\ mode = "tracked"
  /\ pc[r] = "finally"
  /\ Commit(LogCaptureFlush(Io, LogCapture(r, 0)))
  /\ tl_flow' = [tl_flow EXCEPT ![r] = NoCapture]
  /\ run_id' = [run_id EXCEPT ![r] = ContextCleared(r)]
  /\ task_index' = [task_index EXCEPT ![r] = 0]
  /\ pc' = [pc EXCEPT ![r] = IF IsRequestException(raised[r]) THEN "request exception"
                             ELSE "returned"]
  /\ UNCHANGED <<hostVars, tracked_vars_exec, pending, clockVars, tpc, task_result, sys_stdout,
                 my_index, last_update_time, call, tl_task, parent_log_capture,
                 stdout_installed, instances, raised>>

\* except requests.exceptions.RequestException: the warning, the context
\* reset, and result = func(*args, **kwargs)
flow_fallback(r) ==
  /\ mode = "tracked"
  /\ pc[r] = "request exception"
  /\ Commit(StdoutWrite(Io, FlowLine("W", r), tl_flow[r]))
  /\ run_id' = [run_id EXCEPT ![r] = None]
  /\ task_index' = [task_index EXCEPT ![r] = 0]
  /\ func_calls' = [func_calls EXCEPT ![r] = @ + 1]
  /\ call' = [call EXCEPT ![r] = 0]
  /\ pc' = [pc EXCEPT ![r] = "fallback body"]
  /\ UNCHANGED <<hostVars, settingVars, execution_callback, execVars, pending, clockVars, tpc, task_result,
                 sys_stdout, my_index, last_update_time, tl_flow, tl_task,
                 parent_log_capture, stdout_installed, instances, raised>>

\* The flow body called by the fallback: each task call finds no run id in
\* the context, prints "[Task] Executing" and calls the function in the
\* calling thread; an exception leaves the body and the wrapper; after the
\* last task the body returns and the wrapper prints "[Flow] Completed".
fallback_body(r) ==
  /\ mode = "tracked"
  /\ pc[r] = "fallback body"
  /\ run_id[r] = None
  /\ IF call[r] < Len(tasks[r])
     THEN /\ Commit(StdoutWrite(Io, FlowLine("E", r) \o Text(CalledDef(r).func.prints, r),
                                tl_flow[r]))
          /\ IF CalledDef(r).func.ends.kind = "raise"
             THEN /\ raised' = [raised EXCEPT ![r] = CalledDef(r).func.ends.note]
                  /\ pc' = [pc EXCEPT ![r] = "returned"]
                  /\ call' = call
             ELSE /\ raised' = raised
                  /\ pc' = pc
                  /\ call' = [call EXCEPT ![r] = @ + 1]
     ELSE /\ Commit(StdoutWrite(Io, FlowLine("C", r), tl_flow[r]))
          /\ raised' = [raised EXCEPT ![r] = None]
          /\ pc' = [pc EXCEPT ![r] = "returned"]
          /\ call' = call
  /\ UNCHANGED <<hostVars, tracked_vars_exec, pending, clockVars, tpc, task_result, sys_stdout,
                 run_id, task_index, my_index, last_update_time, tl_flow, tl_task,
                 parent_log_capture, stdout_installed, instances>>

FallbackNext == \E r \in Runs : flow_fallback(r) \/ fallback_body(r)

TrackedNext ==
  \E r \in Runs :
    \/ flow_wrapper(r)
    \/ ensure_stdout_check(r)
    \/ ensure_stdout_install(r)
    \/ start_capture(r)
    \/ execute_tracked_task(r)
    \/ tracked_task_inherit(r)
    \/ tracked_task_print(r)
    \/ tracked_task_end(r)
    \/ tracked_poll(r)
    \/ tracked_join(r)
    \/ flow_returned(r)
    \/ flow_except(r)
    \/ flow_finally(r)

\* The task wrapper: if self._current_run_id and self._client: tracked
Tracks(r) == run_id[r] # None

\* The thread that ran a flow calls a task after the wrapper has ended: the
\* task wrapper tests the context; with no run id it prints "[Task]
\* Executing" and calls the function in the calling thread; with one, the
\* call is tracked and its first RUNNING update is sent.
task_after_flow(r) ==
  /\ mode = "tracked"
  /\ pc[r] = "returned"
  /\ IF Tracks(r)
     THEN /\ Commit(Send(StdoutWrite(Io, FlowLine("E", r), tl_flow[r]), run_id[r],
                         <<Upd(NextIndex(r), "RUNNING", 0, Absent, "", "")>>))
          /\ task_index' = [task_index EXCEPT ![r] = Incremented(task_index[r])]
     ELSE /\ Commit(StdoutWrite(Io, FlowLine("E", r) \o Text("line", r), tl_flow[r]))
          /\ task_index' = task_index
  /\ pc' = [pc EXCEPT ![r] = "after"]
  /\ UNCHANGED <<hostVars, tracked_vars_exec, pending, clockVars, tpc, task_result, sys_stdout,
                 run_id, my_index, last_update_time, call, tl_flow, tl_task,
                 parent_log_capture, stdout_installed, instances, raised>>

AfterNext == \E r \in Runs : task_after_flow(r)

\* ------------------ perfect/sdk.py: the interceptor and an untracked thread
\* print or sys.stdout.write by a thread that runs no flow, once the
\* interceptor is installed: ThreadAwareStdout.write finds no log_capture
\* in the thread's _thread_local.
untracked_write(text) ==
  /\ mode = "tracked"
  /\ sys_stdout.kind = "mux"
  /\ Len(real_out[Untracked]) < MaxUntracked
  /\ Commit(StdoutWrite(Io, text, NoCapture))
  /\ UNCHANGED <<hostVars, tracked_vars_exec, pending, clockVars, pc, tpc, task_result,
                 sys_stdout, trackVars>>

UntrackedNext == \E shape \in Shapes : untracked_write(Text(shape, Untracked))

\* --------------------- perfect/executor.py: create_execution_handler
\* threaded_handler: one thread per request, running wrapped_execution.
dispatch_handler(r) ==
  /\ mode = "dispatch"
  /\ r \in pending
  /\ pending' = pending \ {r}
  /\ pc' = [pc EXCEPT ![r] = "lookup"]
  /\ wpc' = [wpc EXCEPT ![r] = "handling"]
  /\ UNCHANGED <<listenVars, callbacks, inputVars, execVars, trackVars, clockVars, tpc,
                 task_result, sys_stdout, buffer, sent, real_out>>

\* wrapped_execution: the lookup; not found: the log, then the callback;
\* found: the "Starting flow" log, then flow_def.func(), the function the
\* @flow decorator was given, not its tracking wrapper.
dispatch_lookup(r) ==
  /\ mode = "dispatch"
  /\ pc[r] = "lookup"
  /\ IF Found(flow_name[r])
     THEN /\ Commit(Send(Io, r, <<Log("starting flow", Absent, "")>>))
          /\ pc' = [pc EXCEPT ![r] = "body"]
     ELSE /\ Commit(Send(Io, r, <<Log("flow not found", Absent, "")>>))
          /\ pc' = [pc EXCEPT ![r] = "callback"]
  /\ call' = [call EXCEPT ![r] = 0]
  /\ UNCHANGED <<hostVars, inputVars, pending, execVars, clockVars, tpc, task_result,
                 sys_stdout, run_id, task_index, my_index, last_update_time, tl_flow,
                 tl_task, parent_log_capture, stdout_installed, instances, raised>>

\* The flow body calls its next task with no run id in the thread's
\* context: the wrapper prints "[Task] Executing" and calls the function in
\* the calling thread; an exception leaves the flow body.
direct_task(r) ==
  /\ mode = "dispatch"
  /\ pc[r] = "body"
  /\ call[r] < Len(tasks[r])
  /\ ~Tracks(r)
  /\ Commit(StdoutWrite(Io, FlowLine("E", r) \o Text(CalledDef(r).func.prints, r),
                        tl_flow[r]))
  /\ IF CalledDef(r).func.ends.kind = "raise"
     THEN /\ raised' = [raised EXCEPT ![r] = CalledDef(r).func.ends.note]
          /\ pc' = [pc EXCEPT ![r] = "except"]
          /\ call' = call
     ELSE /\ raised' = raised
          /\ pc' = pc
          /\ call' = [call EXCEPT ![r] = @ + 1]
  /\ UNCHANGED <<hostVars, inputVars, pending, execVars, clockVars, tpc, task_result,
                 sys_stdout, run_id, task_index, my_index, last_update_time, tl_flow,
                 tl_task, parent_log_capture, stdout_installed, instances>>

\* flow_def.func() returned: the "Flow completed" log
dispatch_completed(r) ==
  /\ mode = "dispatch"
  /\ pc[r] = "body"
  /\ call[r] = Len(tasks[r])
  /\ Commit(Send(Io, r, <<Log("flow completed", Absent, "")>>))
  /\ pc' = [pc EXCEPT ![r] = "callback"]
  /\ UNCHANGED <<hostVars, inputVars, pending, execVars, clockVars, tpc, task_result,
                 sys_stdout, trackVars>>

\* except Exception as e: the "Flow failed" log
dispatch_failed(r) ==
  /\ mode = "dispatch"
  /\ pc[r] = "except"
  /\ Commit(Send(Io, r, <<Log("flow failed", Absent, raised[r])>>))
  /\ pc' = [pc EXCEPT ![r] = "callback"]
  /\ UNCHANGED <<hostVars, inputVars, pending, execVars, clockVars, tpc, task_result,
                 sys_stdout, trackVars>>

\* if on_flow_complete: on_flow_complete(request.flow_name)
dispatch_callback(r) ==
  /\ mode = "dispatch"
  /\ pc[r] = "callback"
  /\ callbacks' = [callbacks EXCEPT ![r] = Append(@, flow_name[r])]
  /\ wpc' = [wpc EXCEPT ![r] = "done"]
  /\ pc' = [pc EXCEPT ![r] = "returned"]
  /\ OnFlowComplete
  /\ UNCHANGED <<inputVars, pending, execVars, trackVars, clockVars, tpc, task_result,
                 sys_stdout, buffer, sent, real_out, lpc, hpc, requests>>

DispatchStep(r) ==
  \/ dispatch_handler(r)
  \/ dispatch_lookup(r)
  \/ direct_task(r)
  \/ dispatch_completed(r)
  \/ dispatch_failed(r)
  \/ dispatch_callback(r)

DispatchNext == \E r \in Runs : DispatchStep(r)

\* ------------------------------------------------------------------ Init
InitState ==
  /\ pc = [r \in Runs |-> "idle"]
  /\ i = [r \in Runs |-> 0]
  /\ now = [r \in Runs |-> 0]
  /\ polls = [r \in Runs |-> 0]
  /\ elapsed_ms = [r \in Runs |-> 0]
  /\ last_progress = [r \in Runs |-> 0]
  /\ tpc = [r \in Runs |-> "none"]
  /\ old_stdout = [r \in Runs |-> RealStdout]
  /\ task_result = [r \in Runs |-> Unset]
  /\ sys_stdout = RealStdout
  /\ buffer = [c \in Captures |-> <<>>]
  /\ sent = [r \in Runs |-> <<>>]
  /\ real_out = [w \in Writers |-> <<>>]
  /\ run_id = [r \in Runs |-> None]
  /\ task_index = [r \in Runs |-> 0]
  /\ my_index = [r \in Runs |-> 0]
  /\ last_update_time = [r \in Runs |-> 0]
  /\ call = [r \in Runs |-> 0]
  /\ tl_flow = [r \in Runs |-> NoCapture]
  /\ tl_task = [r \in Runs |-> NoCapture]
  /\ parent_log_capture = [r \in Runs |-> NoCapture]
  /\ stdout_installed = FALSE
  /\ instances = 0
  /\ raised = [r \in Runs |-> None]
  /\ wpc = [r \in Runs |-> "none"]
  /\ callbacks = [r \in Runs |-> <<>>]
  /\ completed_count = 0
  /\ listening = FALSE
  /\ heartbeat_running = FALSE
  /\ lpc = "idle"
  /\ hpc = "none"
  /\ stopped = FALSE
  /\ reg_tasks = <<>>
  /\ reg_flows = <<>>
  /\ analysis = <<>>
  /\ analyze_result = [of |-> None, ended |-> "none"]
  /\ written = <<>>
  /\ carry = <<>>
  /\ mark = [written |-> 0, sent |-> 0]
  /\ prior = <<>>
  /\ cap_op = "none"
  /\ lock = None
  /\ wr_pc = [t \in Threads |-> "idle"]
  /\ text_arg = [t \in Threads |-> <<>>]
  /\ loaded = [t \in Threads |-> <<>>]
  /\ writes = [t \in Threads |-> 0]
  /\ order = <<>>
  /\ total_flows = 0
  /\ count_lock = None
  /\ cb_pc = [d \in Dispatches |-> "running"]
  /\ cb_loaded = [d \in Dispatches |-> 0]
  /\ stops = 0
  /\ func_calls = [r \in Runs |-> 0]

\* Every flow's source can be read and no transport call fails.
Healthy ==
  /\ analyzable = [r \in Runs |-> TRUE]
  /\ drops = [r \in Runs |-> {}]

\* The task definitions each specification draws its flows from.
\* crucial_pass matters only to a task that fails.
PolicyDefs ==
  {TaskDefinition(20, TRUE, o, "line") : o \in Outcomes}
  \cup {TaskDefinition(20, FALSE, o, "line") : o \in {ResultFail, Raises}}
ProgressDefs ==
  {TaskDefinition(e, FALSE, o, p) :
     e \in EstTimes, o \in {ReturnsValue, Raises}, p \in Shapes}
Prints(shape) == TaskDefinition(1, TRUE, ReturnsValue, shape)
Fails == TaskDefinition(1, TRUE, Raises, "line")

RECURSIVE Repeat(_, _)
Repeat(x, n) == IF n = 0 THEN <<>> ELSE Append(Repeat(x, n - 1), x)

\* How long a sleep of the polling loops takes, and how many sleeps of a
\* run are followed.
Env(sleeps, n) == [sleeps |-> sleeps, polls |-> n]

\* The runs in rs are requested, each for a registered flow whose analyzed
\* tasks are a sequence of at most n of defs.
InitFlows(rs, defs, n) ==
  /\ pending = rs
  /\ flow_name = [r \in Runs |-> "Daily Sales ETL"]
  /\ \E f \in [rs -> SeqsUpTo(defs, n)] :
       tasks = [r \in Runs |-> IF r \in rs THEN f[r] ELSE <<>>]

\* A request whose flow name the registry does not know.
InitUnknown(rs) ==
  /\ pending = rs
  /\ flow_name = [r \in Runs |-> UnknownFlow]
  /\ tasks = [r \in Runs |-> <<>>]

\* One run, on either path.
Init ==
  /\ InitState
  /\ requests = {}
  /\ execution_callback = None
  /\ Healthy
  /\ \/ /\ mode = "executor"
        /\ env = Env({Quantum}, MaxPolls)
        /\ InitFlows({"a"}, PolicyDefs, MaxTasks)
     \/ /\ mode = "executor"
        /\ env = Env({Quantum}, MaxPolls)
        /\ InitUnknown({"a"})
     \/ /\ mode = "tracked"
        /\ env = Env({UpdatePeriod}, MaxPolls)
        /\ InitFlows({"a"}, PolicyDefs, MaxTasks)

Next == ExecutorNext \/ TrackedNext

Spec == Init /\ [][Next]_vars

\* One executor run over tasks of every estimate and output shape.
InitProgress ==
  /\ InitState
  /\ requests = {}
  /\ execution_callback = None
  /\ Healthy
  /\ mode = "executor"
  /\ env = Env({Quantum, 2 * Quantum}, MaxPolls)
  /\ InitFlows({"a"}, ProgressDefs, ProgressTasks)

SpecProgress == InitProgress /\ [][ExecutorNext]_vars

\* Two runs at the same time: run a's tasks all print and return, run b's
\* last task raises.
InitConc(n, shape) ==
  /\ pending = Runs
  /\ flow_name = [r \in Runs |-> "Daily Sales ETL"]
  /\ tasks = [r \in Runs |->
                IF r = "a" THEN Repeat(Prints(shape), n)
                ELSE Append(Repeat(Prints(shape), n - 1), Fails)]

InitExecutorConc ==
  /\ InitState
  /\ requests = {}
  /\ execution_callback = None
  /\ Healthy
  /\ mode = "executor"
  /\ env = Env({Quantum}, ConcPolls)
  /\ \E shape \in Shapes : InitConc(ConcTasks, shape)

SpecExecutorConc == InitExecutorConc /\ [][ExecutorNext]_vars

InitTrackedConc ==
  /\ InitState
  /\ requests = {}
  /\ execution_callback = None
  /\ Healthy
  /\ mode = "tracked"
  /\ env = Env({UpdatePeriod}, ConcPolls)
  /\ InitConc(TrackedConcTasks, "line")

SpecTrackedConc == InitTrackedConc /\ [][TrackedNext]_vars

\* Two tracked flows at the same time: run a's tasks print and return; run
\* b's last task is crucial and ends as ends says.
FailsWith(ends) == TaskDefinition(1, TRUE, ends, "line")

InitWrapper ==
  /\ InitState
  /\ requests = {}
  /\ execution_callback = None
  /\ Healthy
  /\ mode = "tracked"
  /\ env = Env({UpdatePeriod}, ConcPolls)
  /\ pending = Runs
  /\ flow_name = [r \in Runs |-> "Daily Sales ETL"]
  /\ \E ends \in {Raises, ResultFail, RaisesConnectionError} :
       tasks = [r \in Runs |->
                  IF r = "a" THEN Repeat(Prints("line"), TrackedConcTasks)
                  ELSE Append(Repeat(Prints("line"), TrackedConcTasks - 1), FailsWith(ends))]

SpecWrapper == InitWrapper /\ [][TrackedNext \/ FallbackNext]_vars

\* Concurrent tracked flows, each thread calling a task after its flow.
SpecLifetime == InitTrackedConc /\ [][TrackedNext \/ AfterNext]_vars

\* Two tracked runs at the same time, and a thread that runs no flow and
\* writes to sys.stdout.
SpecInterceptor == InitTrackedConc /\ [][TrackedNext \/ UntrackedNext]_vars

\* One request handled by either execution handler: a registered flow whose
\* source may or may not be readable, or a flow name nobody registered.
InitDispatch ==
  /\ InitState
  /\ requests = {}
  /\ execution_callback = None
  /\ env = Env({Quantum}, MaxPolls)
  /\ drops = [r \in Runs |-> {}]
  /\ mode \in {"executor", "dispatch"}
  /\ \/ /\ InitFlows({"a"}, PolicyDefs, MaxTasks)
        /\ \E readable \in BOOLEAN :
             analyzable = [r \in Runs |-> mode = "dispatch" \/ readable]
     \/ /\ InitUnknown({"a"})
        /\ analyzable = [r \in Runs |-> TRUE]

SpecDispatch == InitDispatch /\ [][ExecutorNext \/ DispatchNext]_vars

\* The same flow requested twice, run b when run a is over: run a with a
\* transport that works, run b with any of the first DropWindow calls of its
\* run id failing.
InitTransport ==
  /\ InitState
  /\ requests = {"b"}
  /\ execution_callback = Handler
  /\ mode = "executor"
  /\ env = Env({Quantum}, ConcPolls)
  /\ pending = {"a"}
  /\ flow_name = [r \in Runs |-> "Daily Sales ETL"]
  /\ analyzable = [r \in Runs |-> TRUE]
  /\ \E flow \in SeqsUpTo({Prints(shape) : shape \in Shapes}, TransportTasks) :
       tasks = [r \in Runs |-> flow]
  /\ \E failing \in SUBSET (1..DropWindow) :
       drops = [r \in Runs |-> IF r = "a" THEN {} ELSE failing]

\* The poll that brings the next request (client.listen_for_executions, the
\* GET of the loop): here it comes when the handler of the request before it
\* has returned and the listener is still on.
next_request(r) ==
  /\ mode = "executor"
  /\ ~stopped
  /\ r \in requests
  /\ \A q \in Runs \ {r} : pc[q] = "returned"
  /\ requests' = requests \ {r}
  /\ pending' = pending \cup {r}
  /\ UNCHANGED <<callbackVars, completed_count, listening, heartbeat_running, lpc, hpc,
                 stopped, inputVars, trackVars, execVars, clockVars, pc, tpc, task_result,
                 sys_stdout, buffer, sent, real_out>>

TransportNext == ExecutorNext \/ \E r \in Runs : next_request(r)

SpecTransport == InitTransport /\ [][TransportNext]_vars

\* ============================================================== properties
StateUpdates(r) == SelectSeq(sent[r], LAMBDA m : m.kind = "state")
LogsOf(r, what) == SelectSeq(sent[r], LAMBDA m : m.kind = "log" /\ m.what = what)
UpdatesOf(r, idx, state) ==
  SelectSeq(sent[r], LAMBDA m : m.kind = "state" /\ m.idx = idx /\ m.state = state)
IsTerminal(m) == m.state \in {"COMPLETED", "FAILED"}
Last(seq) == seq[Len(seq)]
Registered(r) == flow_name[r] \in RegisteredFlows
RaisingTasks(r) == {k \in 1..Len(tasks[r]) : tasks[r][k].func.ends.kind = "raise"}
CrucialRaising(r) == {k \in RaisingTasks(r) : tasks[r][k].crucial_pass}

\* C1: an executor run whose tasks all finish without raising reports its
\* task states in index order 0..N-1, every task going from no update
\* (PENDING) to RUNNING to COMPLETED, and ends with exactly one flow-level
\* success log, which is the last thing the run sends.
C1_SuccessfulRunInOrder ==
  \A r \in Runs :
    (mode = "executor" /\ Registered(r) /\ RaisingTasks(r) = {}) =>
      LET S == StateUpdates(r)
          success == LogsOf(r, "flow completed successfully")
      IN /\ \A j \in 1..Len(S) :
              /\ S[j].state \in {"RUNNING", "COMPLETED"}
              /\ j = 1 => S[j].idx = 0 /\ S[j].state = "RUNNING"
              /\ j > 1 =>
                   IF S[j - 1].state = "COMPLETED"
                   THEN S[j].idx = S[j - 1].idx + 1 /\ S[j].state = "RUNNING"
                   ELSE S[j].idx = S[j - 1].idx
         /\ IF pc[r] = "returned"
            THEN /\ \A k \in 0..(Len(tasks[r]) - 1) :
                      Len(UpdatesOf(r, k, "COMPLETED")) = 1
                 /\ Len(S) > 0 => Last(S).state = "COMPLETED"
                 /\ Len(success) = 1
                 /\ Last(sent[r]).what = "flow completed successfully"
                 /\ LogsOf(r, "flow failed") = <<>>
            ELSE success = <<>>

C1_Witness ==
  \E r \in Runs :
    /\ mode = "executor" /\ Registered(r) /\ RaisingTasks(r) = {}
    /\ pc[r] = "returned"
    /\ Len(tasks[r]) = MaxTasks
    /\ \E j \in 1..Len(sent[r]) : sent[r][j].state = "RUNNING" /\ sent[r][j].progress > 0

\* C2: when the first raising crucial task of an executor run is task f, no
\* task after f is started or gets any message, no success log is sent, and
\* once the run has returned task f has been reported FAILED and a
\* flow-level failure log carries the error's message.
C2_CrucialRaiseAborts ==
  \A r \in Runs :
    (mode = "executor" /\ Registered(r) /\ CrucialRaising(r) # {}) =>
      LET f == (CHOOSE k \in CrucialRaising(r) : \A j \in CrucialRaising(r) : k <= j) - 1
          err == tasks[r][f + 1].func.ends.note
      IN /\ i[r] <= f
         /\ \A j \in 1..Len(sent[r]) : sent[r][j].idx <= f
         /\ LogsOf(r, "flow completed successfully") = <<>>
         /\ pc[r] = "returned" =>
              /\ UpdatesOf(r, f, "FAILED") # <<>>
              /\ UpdatesOf(r, f, "COMPLETED") = <<>>
              /\ \E j \in 1..Len(sent[r]) :
                   sent[r][j].what = "flow failed" /\ sent[r][j].note = err
              /\ Last(sent[r]).what = "flow failed"

C2_Witness ==
  \E r \in Runs :
    /\ mode = "executor" /\ Registered(r) /\ pc[r] = "returned"
    /\ Len(tasks[r]) = MaxTasks
    /\ 1 \in CrucialRaising(r)
    /\ UpdatesOf(r, 0, "FAILED") # <<>>
LinesOf(r, c) == SelectSeq(sent[r], LAMBDA m : m.kind = "log" /\ m.text = <<c>>)
TerminalUpdatesOf(r, idx) ==
  SelectSeq(sent[r], LAMBDA m : m.kind = "state" /\ m.idx = idx /\ IsTerminal(m))
\* The tasks whose failure ends the run, on the path the run takes.
Aborting(r) ==
  IF mode = "executor" THEN CrucialRaising(r)
  ELSE {k \in 1..Len(tasks[r]) :
          tasks[r][k].crucial_pass /\ TrackedFailed(tasks[r][k].func.ends)}
SuccessLogs(r) ==
  IF mode = "executor" THEN LogsOf(r, "flow completed successfully") ELSE LinesOf(r, "C")
FailureLogs(r) ==
  IF mode = "executor" THEN LogsOf(r, "flow failed") ELSE LinesOf(r, "X")

\* C3: on either path, a run in which tasks raise but no failing task is
\* crucial reports each raising task FAILED with the error's message, gives
\* every task of the flow its terminal state in index order, sends no
\* flow-level failure log, and ends with exactly one flow-level success log.
C3_NonCrucialRaiseContinues ==
  \A r \in Runs :
    (Registered(r) /\ RaisingTasks(r) # {} /\ Aborting(r) = {}) =>
      LET S == StateUpdates(r)
      IN /\ \A j \in 2..Len(S) :
              /\ S[j].idx >= S[j - 1].idx
              /\ S[j].idx > S[j - 1].idx =>
                   S[j].idx = S[j - 1].idx + 1 /\ IsTerminal(S[j - 1])
         /\ FailureLogs(r) = <<>>
         /\ pc[r] = "returned" =>
              /\ \A k \in 1..Len(tasks[r]) :
                   /\ Len(TerminalUpdatesOf(r, k - 1)) = 1
                   /\ k \in RaisingTasks(r) =>
                        /\ TerminalUpdatesOf(r, k - 1)[1].state = "FAILED"
                        /\ TerminalUpdatesOf(r, k - 1)[1].note = tasks[r][k].func.ends.note
              /\ Len(SuccessLogs(r)) = 1
              /\ Last(sent[r]) = SuccessLogs(r)[1]

C3_Witness ==
  \E r \in Runs :
    /\ mode = "executor" /\ Registered(r) /\ pc[r] = "returned"
    /\ Len(tasks[r]) = MaxTasks
    /\ 1 \in RaisingTasks(r) /\ Aborting(r) = {}
    /\ UpdatesOf(r, 0, "FAILED") # <<>>
    /\ TerminalUpdatesOf(r, 1) # <<>>
\* C4: on every failure path of an executor run exactly one FAILED update is
\* sent for the failing task, at most one flow-level failure log is sent, and
\* the failing task is never reported COMPLETED.
C4_OneFailedUpdate ==
  \A r \in Runs :
    (mode = "executor" /\ Registered(r)) =>
      /\ \A k \in RaisingTasks(r) :
           /\ Len(UpdatesOf(r, k - 1, "FAILED")) <= 1
           /\ (i[r] >= k \/ (pc[r] = "returned" /\ i[r] = k - 1)) =>
                Len(UpdatesOf(r, k - 1, "FAILED")) = 1
           /\ UpdatesOf(r, k - 1, "COMPLETED") = <<>>
      /\ Len(LogsOf(r, "flow failed")) <= 1

\* C5: within one task of an executor run the first RUNNING update carries
\* progress 0, each later RUNNING update carries a strictly larger progress
\* than the one before it, no RUNNING update follows the task's terminal
\* update, and a COMPLETED update carries exactly 100.
C5_ProgressStrictlyIncreasing ==
  \A r \in Runs :
    LET S == StateUpdates(r)
    IN mode = "executor" => \A j \in 1..Len(S) :
         /\ S[j].state = "RUNNING" =>
              IF j = 1 \/ S[j - 1].idx # S[j].idx
              THEN S[j].progress = 0
              ELSE /\ S[j - 1].state = "RUNNING"
                   /\ S[j].progress > S[j - 1].progress
                   /\ S[j].progress < 100
         /\ S[j].state = "COMPLETED" => S[j].progress = 100

C5_Witness ==
  \E r \in Runs :
    /\ Len(UpdatesOf(r, 0, "RUNNING")) >= 3
    /\ UpdatesOf(r, 0, "COMPLETED") # <<>>
\* C6: with the thread-aware multiplexer and two tracked runs at the same
\* time, every log line sent to the transport with run id r, and every
\* character waiting in a capture of run r, was written by a thread of run r.
C6_LinesCarryWriterRunId ==
  mode = "tracked" =>
    /\ \A r \in Runs : \A j \in 1..Len(sent[r]) : sent[r][j].by \subseteq {r}
    /\ \A cap \in Captures : \A k \in 1..Len(buffer[cap]) : buffer[cap][k].by = cap.run

C6_Witness ==
  /\ mode = "tracked"
  /\ pc["a"] = "polling" /\ pc["b"] = "polling"
  /\ tpc["a"] = "printed" /\ tpc["b"] = "printed"
  /\ \E j \in 1..Len(sent["a"]) : sent["a"][j].text = <<"x">>
  /\ \E j \in 1..Len(sent["b"]) : sent["b"][j].text = <<"x">>

\* C7: with two executor runs at the same time, every line a task prints is
\* sent tagged with the run id of the run the task belongs to.
C7_TaskOutputCarriesOwnRunId ==
  mode = "executor" =>
    \A r \in Runs : \A j \in 1..Len(sent[r]) :
      sent[r][j].what = "task output" => sent[r][j].by \subseteq {r}

Executing(r) == tpc[r] \notin {"none", "dead"}
CurrentIndex(r) == IF mode = "executor" THEN i[r] ELSE my_index[r]

\* C8: within one run, on either path, the first report of task i+1 comes
\* only after a terminal state of task i has been reported, and while a
\* task's function is running that task is the last one reported, it is
\* RUNNING, and every task before it has its terminal state reported: at
\* most one task of a run is executing at any time.
C8_OneTaskAtATime ==
  \A r \in Runs :
    LET S == StateUpdates(r)
    IN /\ \A j \in 2..Len(S) :
            S[j].idx # S[j - 1].idx =>
              S[j].idx = S[j - 1].idx + 1 /\ IsTerminal(S[j - 1])
       /\ Executing(r) =>
            /\ S # <<>>
            /\ Last(S).idx = CurrentIndex(r)
            /\ Last(S).state = "RUNNING"
            /\ \A k \in 0..(CurrentIndex(r) - 1) : TerminalUpdatesOf(r, k) # <<>>

C8_Witness ==
  \E r \in Runs :
    /\ Executing(r)
    /\ CurrentIndex(r) = MaxTasks - 1
    /\ TerminalUpdatesOf(r, 0) # <<>>

\* The updates a tracked task sends as it begins: RUNNING with progress 0.
Begins(r) ==
  SelectSeq(sent[r], LAMBDA m : m.kind = "state" /\ m.state = "RUNNING" /\ m.progress = 0)

\* C9: on the tracked path the tasks of one run get the indices 0, 1, 2, ...
\* in the order they begin, whatever a concurrent run does, and every update
\* of a task carries the index the task got.
C9_IndicesPerRun ==
  mode = "tracked" =>
    \A r \in Runs :
      LET S == StateUpdates(r)
      IN /\ \A j \in 1..Len(Begins(r)) : Begins(r)[j].idx = j - 1
         /\ \A j \in 2..Len(S) :
              IF S[j].progress = 0 /\ S[j].state = "RUNNING"
              THEN S[j].idx = S[j - 1].idx + 1
              ELSE S[j].idx = S[j - 1].idx
         /\ run_id[r] # None => task_index[r] = Len(Begins(r))

C9_Witness ==
  /\ mode = "tracked"
  /\ Len(Begins("a")) = TrackedConcTasks /\ Len(Begins("b")) = TrackedConcTasks
  /\ pc["a"] = "polling" /\ pc["b"] = "polling"

\* C10: a task that returns a structured result with passed false, without
\* raising, is never reported COMPLETED; once its terminal state is reported
\* it is FAILED with the result's note; and when the task is crucial nothing
\* of a later task is sent and no flow-level success log is sent.
C10_FailedResultReportedFailed ==
  \A r \in Runs :
    Registered(r) =>
      \A k \in 1..Len(tasks[r]) :
        tasks[r][k].func.ends = ResultFail =>
          /\ UpdatesOf(r, k - 1, "COMPLETED") = <<>>
          /\ \A j \in 1..Len(TerminalUpdatesOf(r, k - 1)) :
               /\ TerminalUpdatesOf(r, k - 1)[j].state = "FAILED"
               /\ TerminalUpdatesOf(r, k - 1)[j].note = ResultFail.note
          /\ tasks[r][k].crucial_pass =>
               /\ \A j \in 1..Len(sent[r]) : sent[r][j].kind = "state" => sent[r][j].idx < k
               /\ SuccessLogs(r) = <<>>
\* C11: a request whose flow name matches no registered flow ends at once,
\* under either execution handler: the handler goes from the lookup straight
\* to its return, no task function is launched, no task-state update is ever
\* sent for the run id, and the last thing sent is the not-found log.
C11_UnknownFlowEndsAtOnce ==
  \A r \in Runs :
    ~Registered(r) =>
      /\ StateUpdates(r) = <<>>
      /\ tpc[r] = "none" /\ i[r] = 0 /\ call[r] = 0
      /\ pc[r] \in {"idle", "received", "lookup", "callback", "returned"}
      /\ pc[r] \in {"callback", "returned"} =>
           /\ Len(LogsOf(r, "flow not found")) = 1
           /\ Last(sent[r]).what = "flow not found"

C11_Witness ==
  \E r \in Runs :
    /\ ~Registered(r)
    /\ mode = "executor"
    /\ wpc[r] = "done"
    /\ LogsOf(r, "flow not found") # <<>>
\* A client that listens: the backend holds one request for each run, for
\* the registered flow with at most ListenTasks printing tasks.
Backlog(rs) ==
  /\ InitState
  /\ requests = rs
  /\ Healthy
  /\ mode = "executor"
  /\ env = Env({Quantum}, ConcPolls)
  /\ pending = {}
  /\ flow_name = [r \in Runs |-> "Daily Sales ETL"]
  /\ \E flow \in SeqsUpTo({Prints("line")}, ListenTasks) :
       tasks = [r \in Runs |-> IF r \in requests THEN flow ELSE <<>>]

\* on_execution_request(handler) has been called.
InitListening(rs) ==
  /\ Backlog(rs)
  /\ execution_callback = Handler

InitListen == InitListening({"a"})

\* A client as constructed, with no callback registered.
InitClient ==
  /\ Backlog({"a"})
  /\ execution_callback = None

SpecClient == InitClient /\ [][ClientNext]_vars

SpecListen == InitListen /\ [][ListenNext]_vars

\* The backend holds two requests for the registered flow.
InitHost == InitListening(Runs)

SpecHost == InitHost /\ [][HostNext]_vars

\* Every thread that can take a step takes one in the end: the GET has a
\* timeout, the sleeps are finite and the threads are scheduled.
ListenFairness ==
  /\ WF_vars(ListenerStep)
  /\ WF_vars(HeartbeatStep)
  /\ WF_vars(ExecutorNext)

SpecListenFair == SpecListen /\ ListenFairness

\* Nothing runs: the inputs of the run handlers are empty.
NoRuns ==
  /\ InitState
  /\ requests = {}
  /\ execution_callback = None
  /\ Healthy
  /\ env = Env({Quantum}, ConcPolls)
  /\ pending = {}
  /\ flow_name = [r \in Runs |-> UnknownFlow]
  /\ tasks = [r \in Runs |-> <<>>]

\* A registry as constructed: no task and no flow.
InitRegistry ==
  /\ NoRuns
  /\ mode = "registry"

SpecRegistry == InitRegistry /\ [][RegistryNext]_vars

\* A capture as constructed, of either class: its buffer is empty.
InitCapture ==
  /\ NoRuns
  /\ mode \in {"executor", "tracked"}

SpecCapture == InitCapture /\ [][CaptureNext]_vars

\* listen() and the completion callbacks of MaxDispatches requests.
InitCounter ==
  /\ NoRuns
  /\ mode = "executor"

SpecCounter == InitCounter /\ [][CounterNext]_vars

\* The capture of a tracked run, written to by the run's flow thread and by
\* the thread of its task at the same time.
InitShared ==
  /\ NoRuns
  /\ mode = "tracked"

SpecShared == InitShared /\ [][SharedNext]_vars

\* What the handler's own thread sent, without the timing: its logs and the
\* first and the terminal update of every task.
HandlerTrace(r) ==
  LET own == SelectSeq(sent[r], LAMBDA m :
               IF m.kind = "state" THEN m.progress \notin 1..ProgressCap
               ELSE m.what # "task output")
  IN [k \in 1..Len(own) |-> <<own[k].kind, own[k].what, own[k].idx, own[k].state,
                               own[k].passed, own[k].note>>]
\* The lines sent for captured output.
OutputTrace(r) ==
  LET out == SelectSeq(sent[r], LAMBDA m : m.what = "task output")
  IN [k \in 1..Len(out) |-> out[k].text]

\* C12: whichever transport calls fail, the executor makes the same calls for
\* the same flow: a run with failing calls sends the same logs and task-state
\* updates, and the same captured lines, as the run of the same flow with a
\* working transport, and a run whose tasks all succeed sends no FAILED
\* update and no flow-level failure log.
C12_TransportFailuresChangeNothing ==
  mode = "executor" =>
    /\ (wpc["a"] = "done" /\ wpc["b"] = "done" /\ tasks["a"] = tasks["b"]) =>
         /\ HandlerTrace("a") = HandlerTrace("b")
         /\ OutputTrace("a") = OutputTrace("b")
    /\ \A r \in Runs :
         (Registered(r) /\ \A k \in 1..Len(tasks[r]) : tasks[r][k].func.ends = ReturnsValue) =>
           /\ \A j \in 1..Len(sent[r]) : sent[r][j].state # "FAILED"
           /\ LogsOf(r, "flow failed") = <<>>
\* The thread that handles the request of run r is over.
DispatchEnded(r) == wpc[r] \in {"done", "died"}

\* C13: the completion callback is called at most once for a request, and
\* once the dispatch of the request has ended it has been called exactly
\* once, with the flow name of the request, whatever the run's outcome.
C13_CallbackOncePerDispatch ==
  \A r \in Runs :
    /\ Len(callbacks[r]) <= 1
    /\ DispatchEnded(r) => callbacks[r] = <<flow_name[r]>>
\* C14: once stop_listening has been called on a polling listener the
\* listening flag stays false, the loop that has seen the flag starts no
\* further poll, listen_for_executions returns in the end with both flags
\* false, and the heartbeat loop exits in the end.
C14_StopEndsListening ==
  /\ [](stopped => ~listening)
  /\ [][(lpc = "check" /\ ~listening) => lpc' # "poll"]_vars
  /\ stopped ~> (lpc = "returned" /\ ~listening /\ ~heartbeat_running)
  /\ stopped ~> (hpc = "exited")
C14_Witness ==
  /\ stopped
  /\ lpc = "returned"
  /\ hpc = "exited"
  /\ ~listening
  /\ ~heartbeat_running
\* Every task of run r has a terminal update and the run has its outcome log.
ReportedToTheEnd(r) ==
  /\ \A k \in 1..Len(tasks[r]) : TerminalUpdatesOf(r, k - 1) # <<>>
  /\ LogsOf(r, "flow completed successfully") \o LogsOf(r, "flow failed") # <<>>

\* C15: stopping the listener leaves the dispatched runs alone: a run in
\* flight when stop_listening is called is not ended by it, and when its
\* thread is over the terminal state of each of its tasks and its outcome
\* log have been sent, as they are without the stop.
C15_StopLeavesRunsAlone ==
  \A r \in Runs :
    (stopped /\ Registered(r) /\ wpc[r] \notin {"none", "handling"}) => ReportedToTheEnd(r)
\* C16: analyze_flow called again on a flow, with no registration in
\* between, returns the task sequence it returned before and leaves the
\* flow's tasks list equal to it: the list is replaced, nothing is appended.
C16_AnalyzeIdempotent ==
  [][\A func \in DOMAIN analysis \cap DOMAIN analysis' :
       /\ analysis'[func].tasks = analysis[func].tasks
       /\ reg_flows'[func].tasks = analysis[func].tasks]_vars
C16_Witness ==
  \E func \in DOMAIN analysis :
    /\ analysis[func].calls = 2
    /\ Len(analysis[func].tasks) = 2
    /\ reg_flows[func].tasks = analysis[func].tasks
\* The text written to the capture since its last flush.
SinceFlush == SubSeq(written, mark.written + 1, Len(written))

\* C17: after any writes to a capture, what has been sent since the last
\* flush is exactly the completed non-blank lines of the text written (after
\* what the flush left), each once, in the order written and under the run
\* id of the capture; no blank line is sent; the text after the last newline
\* is in the buffer, unsent.
C17_CompletedLinesSentOnce ==
  cap_op # "none" =>
    LET all == SplitLines(carry \o SinceFlush)
    IN /\ SubSeq(sent["a"], mark.sent + 1, Len(sent["a"])) = AsLogs(all.lines)
       /\ buffer[TheCapture] = all.rest
       /\ sent["b"] = <<>>
       /\ \A k \in 1..Len(sent["a"]) : \E j \in 1..Len(sent["a"][k].text) :
            sent["a"][k].text[j] \notin {" ", "\n"}
C17_Witness ==
  /\ cap_op = "write"
  /\ Len(sent["a"]) = mark.sent + 2
  /\ sent["a"][mark.sent + 1].text # sent["a"][mark.sent + 2].text

\* C18: flush leaves the buffer of the capture empty, whatever it held, and
\* has sent what it held as one log if that was not blank.
C18_FlushEmptiesBuffer ==
  cap_op = "flush" =>
    /\ carry = <<>>
    /\ ~IsBlank(prior) =>
         (sent["a"] # <<>> /\ Last(sent["a"]) = OutputLog(OutputKind, prior))
\* The tasks the flow body of run r has called so far.
Invoked(r) == IF raised[r] # None THEN call[r] + 1 ELSE call[r]

\* C19: a request for a registered flow given to the handler of
\* perfect/executor.py runs the flow's tasks on the tracked path: when the
\* dispatch is over, every task the flow called has reported RUNNING and,
\* after it, a terminal state.
C19_DispatchedTasksAreTracked ==
  mode = "dispatch" =>
    \A r \in Runs :
      (Registered(r) /\ wpc[r] = "done") =>
        \A idx \in 0..(Invoked(r) - 1) :
          \E j, k \in 1..Len(sent[r]) :
            /\ j < k
            /\ sent[r][j].kind = "state" /\ sent[r][j].idx = idx /\ sent[r][j].state = "RUNNING"
            /\ sent[r][k].kind = "state" /\ sent[r][k].idx = idx /\ IsTerminal(sent[r][k])
\* The step is a report of the progress loop of run r.
LoopReports(r) ==
  /\ pc[r] = "progress"
  /\ Len(sent'[r]) = Len(sent[r]) + 1
  /\ Last(sent'[r]).kind = "state"
  /\ Last(sent'[r]).state = "RUNNING"

EstimateOver(r) ==
  /\ pc[r] \in {"progress", "join"}
  /\ elapsed_ms[r] >= TaskDef(r).estimated_time

\* C21: the estimate never ends a task.  While the function of a task is
\* still running after its estimate has run out the handler sends no further
\* task-state update and stays in the loop's exit or in join; no terminal
\* state of a task is sent while its function runs; and the terminal state
\* sent is FAILED when the function raised and COMPLETED when it returned.
C21_EstimateNeverEndsTask ==
  /\ [][\A r \in Runs :
          (mode = "executor" /\ Executing(r) /\ EstimateOver(r)) =>
            /\ StateUpdates(r)' = StateUpdates(r)
            /\ pc'[r] \in {"progress", "join"}
            /\ tpc'[r] # "none"]_vars
  /\ [](\A r \in Runs :
          mode = "executor" =>
            /\ Executing(r) => TerminalUpdatesOf(r, i[r]) = <<>>
            /\ \A k \in 1..Len(tasks[r]) :
                 \A j \in 1..Len(TerminalUpdatesOf(r, k - 1)) :
                   TerminalUpdatesOf(r, k - 1)[j].state =
                     IF tasks[r][k].func.ends.kind = "raise" THEN "FAILED" ELSE "COMPLETED")

\* The task printed its line after the last RUNNING update the estimate
\* allows, and its terminal state came after the line.
C21_Witness ==
  \E r \in Runs :
    \E j, k, l \in 1..Len(sent[r]) :
      /\ j < k /\ k < l
      /\ sent[r][j].state = "RUNNING" /\ sent[r][j].progress = ProgressCap
      /\ sent[r][k].what = "task output"
      /\ sent[r][l].kind = "state" /\ IsTerminal(sent[r][l]) /\ sent[r][l].dur >= tasks[r][1].estimated_time

\* C22: every FAILED update sent for a task whose function raised carries
\* progress 0, the duration measured for the task after its thread was
\* joined, passed false and the message of the error as its note.
C22_FailedUpdateCarriesDuration ==
  \A r \in Runs : \A j \in 1..Len(sent[r]) :
    LET m == sent[r][j]
    IN (m.kind = "state" /\ m.state = "FAILED"
        /\ tasks[r][m.idx + 1].func.ends.kind = "raise") =>
         /\ m.progress = 0
         /\ m.passed = "false"
         /\ m.note = tasks[r][m.idx + 1].func.ends.note
         /\ m.dur # Absent
         /\ CurrentIndex(r) = m.idx => m.dur = now[r]

\* What the logs of run r say, in the order sent.
LogKinds(r) ==
  LET logs == SelectSeq(sent[r], LAMBDA m : m.kind = "log")
  IN [k \in 1..Len(logs) |-> logs[k].what]

\* C23 as stated: a request whose flow name matches no registered flow has
\* sent exactly one log line, the not-found line, when its run is over.
C23_OneLogLineWhenNotFound ==
  \A r \in Runs :
    (~Registered(r) /\ pc[r] = "returned") => LogKinds(r) = <<"flow not found">>

\* C23 amended: such a run sends exactly one not-found line, as the last
\* thing it sends, and nothing else after the lookup; FlowExecutor has sent
\* its two opening logs before the lookup, the handler of
\* perfect/executor.py none.
C23_OneNotFoundLine ==
  \A r \in Runs :
    ~Registered(r) =>
      /\ Len(LogsOf(r, "flow not found")) <= 1
      /\ Len(sent[r]) = Len(LogKinds(r))
      /\ pc[r] \in {"callback", "returned"} =>
           LogKinds(r) = IF mode = "executor"
                         THEN <<"received", "initializing", "flow not found">>
                         ELSE <<"flow not found">>

C23_Witness ==
  \E r \in Runs :
    /\ ~Registered(r)
    /\ mode = "executor"
    /\ pc[r] = "returned"
    /\ Len(sent[r]) = 3
    /\ Last(sent[r]).what = "flow not found"

\* C24: an exception raised by analyze_flow for a resolved flow stays inside
\* handle_execution_request: the handler is never left by the exception, and
\* when the dispatch is over the handler has returned, a flow-level failure
\* log has been sent for the run and the completion callback has been called.
C24_AnalysisFailureContained ==
  \A r \in Runs :
    (mode = "executor" /\ Registered(r) /\ ~analyzable[r]) =>
      /\ pc[r] # "escaped"
      /\ DispatchEnded(r) =>
           /\ pc[r] = "returned"
           /\ LogsOf(r, "flow failed") # <<>>
           /\ callbacks[r] = <<flow_name[r]>>

\* The flow-level outcome logs of run r: not found, success, failure.
OutcomeLogs(r) ==
  SelectSeq(sent[r], LAMBDA m : m.kind = "log" /\
    m.what \in {"flow not found", "flow completed successfully", "flow failed"})

\* The handler of run r is over, by a return or by an exception.
RunEnded(r) == pc[r] \in {"returned", "escaped"}

\* C25: a run of the executor sends at most one flow-level outcome log
\* (not found, success or failure); when the run is over it has sent exactly
\* one; and once the outcome log is sent it stays the last message sent with
\* the run id, no log and no task-state update follows it.
C25_OneAbsorbingOutcome ==
  \A r \in Runs :
    mode = "executor" =>
      /\ Len(OutcomeLogs(r)) <= 1
      /\ RunEnded(r) => Len(OutcomeLogs(r)) = 1
      /\ OutcomeLogs(r) # <<>> => (RunEnded(r) /\ Last(sent[r]) = OutcomeLogs(r)[1])

\* Every thread of a request that can take a step takes one in the end: the
\* sleeps are finite, the transport calls time out, the threads are
\* scheduled, and a task function returns or raises.
DispatchFairness ==
  \A r \in Runs : WF_vars(ExecutorStep(r)) /\ WF_vars(DispatchStep(r))

SpecDispatchFair == SpecDispatch /\ DispatchFairness

\* C26: every request given to the executor's handler gets to its end: the
\* progress loop of each of its tasks is left, the run sends its flow-level
\* outcome log, and handle_execution_request returns.
C26_EveryRequestTerminates ==
  \A r \in Runs :
    /\ (mode = "executor" /\ pc[r] = "progress") ~> (pc[r] # "progress")
    /\ (mode = "executor" /\ wpc[r] = "handling") ~>
         (pc[r] = "returned" /\ Len(OutcomeLogs(r)) = 1)

\* The lines sent with run id q that hold text written by a thread of run r.
LinesBy(q, r) == SelectSeq(sent[q], LAMBDA m : m.kind = "log" /\ r \in m.by /\ m.text = <<"x">>)

\* C27: on the tracked path the thread of a task is bound, while its
\* function runs, to the capture of the flow thread that started it, so the
\* line the task prints is sent with the run id of that flow and with no
\* other; when the task's thread is over its binding is cleared, and the flow
\* thread keeps its own binding until the wrapper's finally block.
C27_TaskInheritsCapture ==
  mode = "tracked" =>
    \A r \in Runs :
      /\ tpc[r] \in {"func", "printed"} =>
           (tl_task[r] = LogCapture(r, 0) /\ tl_task[r] = tl_flow[r])
      /\ tpc[r] = "printed" => LinesBy(r, r) # <<>>
      /\ \A q \in Runs \ {r} : LinesBy(q, r) = <<>>
      /\ tpc[r] = "dead" => tl_task[r] = NoCapture
      /\ pc[r] \in {"body", "polling", "except", "finally"} => tl_flow[r] = LogCapture(r, 0)
      /\ pc[r] = "returned" => tl_flow[r] = NoCapture

C27_Witness ==
  /\ mode = "tracked"
  /\ tpc["a"] = "dead" /\ pc["a"] = "polling"
  /\ tl_task["a"] = NoCapture /\ tl_flow["a"] = LogCapture("a", 0)
  /\ LinesBy("a", "a") # <<>>
  /\ tpc["b"] = "printed" /\ tl_task["b"] = LogCapture("b", 0)

\* The step is a write to the real stream by the thread that runs no flow.
UntrackedWrites == real_out'[Untracked] # real_out[Untracked]

\* C28: a write through the installed interceptor by a thread with no
\* log-capture binding puts its text on the real stream and does nothing
\* else: no message is sent, no capture buffer changes, and no character of
\* that thread is ever in a capture buffer or in a sent log.
C28_UntrackedWriteBypasses ==
  /\ [][UntrackedWrites =>
          /\ sys_stdout = ThreadAwareStdout
          /\ sent' = sent
          /\ buffer' = buffer
          /\ \A r \in Runs : real_out'[r] = real_out[r]
          /\ \E shape \in Shapes :
               real_out'[Untracked] = real_out[Untracked] \o Text(shape, Untracked)]_vars
  /\ [](/\ \A cap \in Captures : \A k \in 1..Len(buffer[cap]) : buffer[cap][k].by # Untracked
        /\ \A r \in Runs : \A j \in 1..Len(sent[r]) : Untracked \notin sent[r][j].by)

\* The untracked thread has written a line while both runs held a capture
\* and a task had printed into one.
C28_Witness ==
  /\ real_out[Untracked] = Text("line", Untracked)
  /\ \A r \in Runs : tl_flow[r] = LogCapture(r, 0)
  /\ \E r \in Runs : tpc[r] = "printed"
  /\ \E r \in Runs : sent[r] # <<>>

\* C29: the interceptor is installed exactly once: however many flow threads
\* call _ensure_thread_aware_stdout, and however their calls interleave, at
\* most one ThreadAwareStdout has ever been created; once a call has
\* returned exactly one has, it is sys.stdout, and the flag is set.
C29_InstalledOnce ==
  mode = "tracked" =>
    /\ instances <= 1
    /\ stdout_installed => (instances = 1 /\ sys_stdout = ThreadAwareStdout)
    /\ \A r \in Runs :
         pc[r] \in {"start capture", "body", "polling", "except", "finally", "returned"} =>
           (stdout_installed /\ instances = 1)

\* The thread is inside the with block of write.
InCritical(t) == wr_pc[t] \in {"load", "store", "while", "release"}

\* How many times the character c is in the text.
Occurs(c, text) == Len(SelectSeq(text, LAMBDA x : x = c))
SentText(r) == Concat([k \in 1..Len(sent[r]) |-> sent[r][k].text])
BufferText(cap) == [k \in 1..Len(buffer[cap]) |-> buffer[cap][k].ch]
OrderText == LET all == Concat(order) IN [k \in 1..Len(all) |-> all[k].ch]

\* C30: with the flow thread and the task thread writing to one capture at
\* the same time, at most one of them is inside the with block of write, and
\* whenever none is, the logs sent and the buffer are what the same writes
\* give when made one after the other in the order the lock was taken: every
\* character a thread wrote is exactly once in a sent log or in the buffer
\* (line ends and blank lines are used up by the splitting, as in a write by
\* one thread).
C30_WritesAreAtomic ==
  /\ \A t, u \in Threads : (InCritical(t) /\ InCritical(u)) => t = u
  /\ (\A t \in Threads : ~InCritical(t)) =>
       LET all == SplitLines(Concat(order))
       IN /\ sent["a"] = AsLogs(all.lines)
          /\ buffer[TheCapture] = all.rest
          /\ \A t \in Threads :
               Occurs(Mark(t), SentText("a")) + Occurs(Mark(t), BufferText(TheCapture))
                 = Occurs(Mark(t), OrderText)

\* Both threads have written twice and their writes took the lock in turn.
C30_Witness ==
  /\ \A t \in Threads : writes[t] = MaxShared /\ wr_pc[t] = "idle"
  /\ Len(order) = 2 * MaxShared
  /\ order[1][1].ch # order[2][1].ch
  /\ order[2][1].ch # order[3][1].ch
  /\ Len(sent["a"]) = 2

\* The thread is inside the with block of on_flow_complete.
InCallback(d) == cb_pc[d] \in {"load", "store", "test", "release"}
\* The callbacks that have run to their end.
Completed == {d \in Dispatches : cb_pc[d] = "done"}
\* How many of k callbacks found the count at the total or above it.
Reaching(k) == IF k >= total_flows THEN k - total_flows + 1 ELSE 0

\* C31: the completion counter loses no update: at most one dispatch thread
\* is inside the callback's with block, and whenever none is, the counter of
\* a started listen is the number of callbacks that have run; stop_listening is called only by a
\* callback that finds the counter at the number of registered flows or
\* above it, and has been called once the counter is there.
C31_CounterLosesNoUpdate ==
  /\ [](\A d, e \in Dispatches : (InCallback(d) /\ InCallback(e)) => d = e)
  /\ []((lpc # "idle" /\ \A d \in Dispatches : ~InCallback(d)) =>
          /\ completed_count = Cardinality(Completed)
          /\ stops = Reaching(Cardinality(Completed))
          /\ stopped <=> completed_count >= total_flows)
  /\ [][stops' # stops => (completed_count >= total_flows /\ stops' = stops + 1)]_vars
  /\ [](completed_count < total_flows => (~stopped /\ stops = 0))

\* Three callbacks have run with two flows registered: the second and the
\* third called stop_listening.
C31_Witness ==
  /\ total_flows = 2
  /\ Cardinality(Completed) = MaxDispatches
  /\ completed_count = MaxDispatches
  /\ stops = MaxDispatches - 1
  /\ stopped

\* The tracked invocation of the wrapper has ended for the thread of r.
WrapperEnded(r) == mode = "tracked" /\ pc[r] \in {"returned", "after"}
\* The thread of r calls a task after its flow.
CallsAfter(r) == pc[r] = "returned" /\ pc'[r] = "after"

\* C32: the execution context ends with the tracked flow invocation: once
\* the wrapper's tracked body has returned or raised, the thread has run id
\* None, task index 0 and no log-capture binding, and the run's capture
\* holds no unsent non-blank text; a task the thread calls afterwards sends
\* nothing, buffers nothing and leaves the context as it is.
C32_ContextEndsWithFlow ==
  /\ [](\A r \in Runs : WrapperEnded(r) =>
          /\ run_id[r] = None
          /\ task_index[r] = 0
          /\ tl_flow[r] = NoCapture
          /\ IsBlank(buffer[LogCapture(r, 0)]))
  /\ [][\A r \in Runs : CallsAfter(r) =>
          /\ sent' = sent
          /\ buffer' = buffer
          /\ real_out'[r] = real_out[r] \o FlowLine("E", r) \o Text("line", r)]_vars

\* One flow returned and the other raised, each after tracked tasks, and
\* both threads have called a task since.
C32_Witness ==
  /\ \A r \in Runs : pc[r] = "after" /\ Len(StateUpdates(r)) > 0
  /\ raised["a"] = None
  /\ raised["b"] # None

\* The pattern is in the text, character by character, from some place on.
OccursIn(pattern, text) ==
  \E k \in 1..Len(text) :
    \A n \in 1..Len(pattern) : k + n - 1 <= Len(text) /\ text[k + n - 1] = pattern[n]
\* The registered tasks whose name, followed by "(", is in the flow's source.
Matching(func) ==
  {k \in 1..Len(reg_tasks) : OccursIn(reg_tasks[k].name \o <<"(">>, reg_flows[func].source)}

\* C33: the tasks analyze_flow gives a flow are exactly the registered tasks
\* whose call form, the name followed by "(", is a substring of the flow's
\* source, each once, in the order of the task registry.
C33_AnalysisIsFilteredRegistry ==
  \A func \in DOMAIN analysis :
    LET found == analysis[func].tasks
    IN /\ found = reg_flows[func].tasks
       /\ Len(found) = Cardinality(Matching(func))
       /\ \A k \in Matching(func) : \E m \in 1..Len(found) : found[m] = reg_tasks[k]
       /\ \A m, n \in 1..Len(found) :
            m < n => \E k, l \in Matching(func) :
                       k < l /\ found[m] = reg_tasks[k] /\ found[n] = reg_tasks[l]

\* A flow whose source is "ff(" analysed with f registered before ff: both
\* are found, f first, though "ff(" starts before "f(" in the source.
C33_Witness ==
  /\ "p" \in DOMAIN analysis
  /\ reg_flows["p"].source = <<"f", "f", "(">>
  /\ Len(analysis["p"].tasks) = 2
  /\ analysis["p"].tasks[1].name = <<"f">>
  /\ analysis["p"].tasks[2].name = <<"f", "f">>
  /\ Len(reg_tasks) = 3

\* A call of analyze_flow with a name that is not a registered flow.
AnalyzesUnknown ==
  /\ analyze_result' # analyze_result
  /\ analyze_result'.of \notin DOMAIN reg_flows

\* C34: analyze_flow called with a name that is not a registered flow ends
\* with the not-found error (ValueError "Flow ... not found") and changes
\* nothing in the registry: no flow's tasks, no flow entry, no task entry.
C34_UnknownFlowRefused ==
  [][AnalyzesUnknown =>
       /\ analyze_result'.ended = "ValueError"
       /\ reg_flows' = reg_flows
       /\ reg_tasks' = reg_tasks
       /\ analysis' = analysis]_vars

\* The unknown name was refused with three tasks and two analysed flows in
\* the registry.
C34_Witness ==
  /\ analyze_result = [of |-> UnknownFunc, ended |-> "ValueError"]
  /\ Len(reg_tasks) = 3
  /\ DOMAIN reg_flows = FlowFuncs
  /\ DOMAIN analysis = FlowFuncs
  /\ \A func \in FlowFuncs : Len(reg_flows[func].tasks) > 0

\* C35: one invocation of the flow wrapper calls the flow function at most
\* once, whatever the body or a crucial task raises; once the tracked body
\* has begun it has been called exactly once.
C35_BodyRunsAtMostOnce ==
  \A r \in Runs :
    mode = "tracked" =>
      /\ func_calls[r] <= 1
      /\ pc[r] \notin {"idle", "ensure stdout", "install", "start capture"} => func_calls[r] = 1

\* C36: once every executor run has ended and no task thread is left,
\* sys.stdout is the stream it was before any task started, whatever the
\* interleaving of the runs' save, swap and restore steps was.
C36_StdoutRestored ==
  (mode = "executor" /\ \A r \in Runs : pc[r] = "returned" /\ ~Executing(r)) =>
    sys_stdout = RealStdout

\* C37: within one run no task index is reported both COMPLETED and FAILED,
\* and the COMPLETED update of an index is the last task-state update sent
\* for that index.
C37_CompletedIsFinal ==
  \A r \in Runs : \A j, k \in 1..Len(sent[r]) :
    (/\ sent[r][j].kind = "state"
     /\ sent[r][k].kind = "state"
     /\ sent[r][j].idx = sent[r][k].idx
     /\ sent[r][j].state = "COMPLETED") =>
      (sent[r][k].state # "FAILED" /\ k <= j)

\* An executor run has ended whose first task failed without being crucial
\* and whose second task completed.
C37_Witness ==
  /\ mode = "executor"
  /\ pc["a"] = "returned"
  /\ Len(UpdatesOf("a", 0, "FAILED")) = 1
  /\ Len(UpdatesOf("a", 1, "RUNNING")) > 0
  /\ Len(UpdatesOf("a", 1, "COMPLETED")) = 1

\* The task-state updates a run has sent for an index, in order.
IndexUpdates(r, idx) == SelectSeq(sent[r], LAMBDA m : m.kind = "state" /\ m.idx = idx)
\* The call of _execute_tracked_task for the index has not returned yet.
InTrackedTask(r, idx) == pc[r] = "polling" /\ my_index[r] = idx

\* C38: each call of _execute_tracked_task sends exactly one terminal update
\* for its index: none while the call is polling or the task thread runs,
\* one from the moment the call has ended, and it is the last task-state
\* update of the index; when the task is crucial and failed, the exception
\* reaches the flow body, the flow calls no further task, and the FAILED
\* update stays the only one.
C38_OneTerminalPerTrackedTask ==
  mode = "tracked" =>
    \A r \in Runs : \A idx \in 0..(Len(tasks[r]) - 1) :
      LET ups == IndexUpdates(r, idx)
          terminal == TerminalUpdatesOf(r, idx)
      IN /\ Len(terminal) <= 1
         /\ (InTrackedTask(r, idx) \/ (Executing(r) /\ my_index[r] = idx)) => terminal = <<>>
         /\ (ups # <<>> /\ ~InTrackedTask(r, idx)) =>
              (Len(terminal) = 1 /\ IsTerminal(Last(ups)))
         /\ (terminal # <<>> /\ terminal[1].state = "FAILED" /\ tasks[r][idx + 1].crucial_pass) =>
              /\ pc[r] \in {"except", "finally", "request exception", "fallback body",
                          "returned", "after"}
              /\ raised[r] = terminal[1].note
              /\ \A later \in (idx + 1)..(Len(tasks[r]) - 1) : IndexUpdates(r, later) = <<>>

\* A tracked flow has ended by the failure of its second, crucial task,
\* after a first task that failed without being crucial; the second task
\* was reported RUNNING more than once before its one FAILED update.
C38_Witness ==
  /\ mode = "tracked"
  /\ pc["a"] = "returned"
  /\ raised["a"] # None
  /\ Len(UpdatesOf("a", 0, "FAILED")) = 1
  /\ Len(UpdatesOf("a", 1, "RUNNING")) > 1
  /\ Len(UpdatesOf("a", 1, "FAILED")) = 1

\* C39: listen_for_executions called with no callback registered raises its
\* error and changes nothing: while no callback is registered the client is
\* not listening, the heartbeat flag is down, no heartbeat thread exists, no
\* request has been polled, and the call has ended where it began or by the
\* error; a call made in that state ends by the error.
C39_ListenWithoutCallbackRefused ==
  /\ [](execution_callback = None =>
          /\ lpc \in {"idle", "raised"}
          /\ ~listening
          /\ ~heartbeat_running
          /\ hpc = "none"
          /\ requests = {"a"}
          /\ pending = {})
  /\ [][(execution_callback = None /\ lpc' # lpc) =>
          (lpc' = "raised" /\ execution_callback' = None)]_vars

\* The call was refused, and the backend still holds the request.
C39_Witness ==
  /\ execution_callback = None
  /\ lpc = "raised"
  /\ requests = {"a"}
====
